---- MODULE Spec2Model ----
(***************************************************************************)
(* Model of the kysely repository layer: the base table repository         *)
(* (AbstractTable: CRUD, soft delete, priority reordering) and the cache   *)
(* repository (AbstractCacheRepository: TTL-aware save/get/expire/clean).  *)
(* A table is a set of row records; every SQL statement the code issues is *)
(* an operator from tables to tables, every public method an action.       *)
(***************************************************************************)
EXTENDS Integers, Sequences, FiniteSets, TLC

VARIABLES
    hasPriority,   \* TableConfig.hasPriority of the repository instance
    softDelete,    \* TableConfig.softDelete of the repository instance
    dialect,       \* "postgres" or "sqlite", detected at construction
    supportedTypes, \* the whitelist of types of the JSON table; empty: any type
    rows,          \* committed content of the base table: a set of row records
    nextId,        \* next value of the store's id generator of the base table
    clock,         \* CURRENT_TIMESTAMP of the store, in seconds
    trx,           \* the open store transaction of create/updatePriority, if any
    cache,         \* content of the cache table: a set of cache row records
    cacheNextId,   \* next value of the id generator of the cache table
    kv,            \* committed content of the key-value table: a set of rows
    kvTrx,         \* the open store transaction of importData, if any
    docs,          \* content of the JSON table: a set of row records
    docNextId,     \* next value of the id generator of the JSON table
    schema,        \* the live table of the store: whether it exists, its columns
    calls,         \* the calls of the concurrent callers: each one's position
    last           \* the last completed call: its name and what it returned

vars == <<hasPriority, softDelete, dialect, supportedTypes, rows, nextId, clock, trx,
          cache, cacheNextId, kv, kvTrx, docs, docNextId, schema, calls, last>>
cfgVars == <<hasPriority, softDelete, dialect, supportedTypes>>
tableVars == <<rows, nextId, trx>>
cacheVars == <<cache, cacheNextId>>
kvVars == <<kv, kvTrx>>
jsonVars == <<docs, docNextId>>
schemaVars == <<schema>>
concVars == <<calls>>

----------------------------------------------------------------------------
(* Bounds of the model *)

\* number of rows the id generator hands out (ids 1..MaxRows)
MaxRows == 3
\* explicit priorities and target priorities range over 0..MaxPriority
MaxPriority == 2
\* the store's clock advances MaxClock times, one hour each time
MaxClock == 1
\* number of rows created while transactions are followed statement by statement
MaxTrxRows == 2
\* in the soft-delete life cycle the clock advances MaxTableClock times
MaxTableClock == 1
\* number of rows the id generator of the cache table hands out
MaxCacheRows == 2

----------------------------------------------------------------------------
(* Program constants: the TTL enumeration *)

ONE_HOUR == 3600
ONE_DAY == 86400
NOT_EXPIRED == -1
EXPIRED == -2
UNLIMITED == 0

----------------------------------------------------------------------------
(* Values *)

\* A nullable SQL value is a sequence of length 0 (NULL) or 1.
Null == <<>>
Some(v) == <<v>>
IsNull(x) == x = Null
Val(x) == x[1]

\* A JavaScript value handed to a method: <<tag, n>>. <<"frac", n>> is n + 0.5.
JsUndefined == <<"undefined", 0>>
JsNull == <<"null", 0>>
JsInt(n) == <<"int", n>>
JsFrac(n) == <<"frac", n>>

\* Number.isInteger
NumberIsInteger(v) == v[1] = "int"

\* the declared column `name` of the users table
Names == {"a", "b"}

\* ensureValidId without the test id <= 0
ensureValidIdAnyInteger(id) == id[1] = "int"

\* ensureValidId: typeof number, finite, an integer, > 0
ensureValidId(id) == id[1] = "int" /\ id[2] > 0

----------------------------------------------------------------------------
(* AbstractTable: the SQL statements, as operators on a table *)

NewRow(id, priority, now, name) ==
    [id |-> id, priority |-> priority, deleted_at |-> Null,
     created_at |-> now, name |-> name]

\* where('id', '=', id)
WhereId(t, id) == {r \in t : r.id = id}

\* executeTakeFirst of a statement that returns rows: the row, or undefined
Absent == [kind |-> "absent"]
RowRet(r) == [kind |-> "row", row |-> r]
ErrorRet(e) == [kind |-> "error", err |-> e]
CountRet(n) == [kind |-> "count", n |-> n]
TakeFirst(rs) == IF rs = {} THEN Absent ELSE RowRet(CHOOSE r \in rs : TRUE)

\* create: a valid explicit priority is a positive integer
providedPriority(p) ==
    /\ hasPriority
    /\ p # JsUndefined
    /\ p # JsNull
    /\ NumberIsInteger(p)
    /\ p[2] > 0

\* create: obj.priority = null unless provided; no priority column otherwise
insertedPriority(p) ==
    IF hasPriority /\ providedPriority(p) THEN Some(p[2]) ELSE Null

\* create: insertInto(table).values(values)
InsertInto(t, id, p, name, now) ==
    t \cup {NewRow(id, insertedPriority(p), now, name)}

\* create: set priority = id where priority is null
StampPriority(t) ==
    {IF IsNull(r.priority) THEN [r EXCEPT !.priority = Some(r.id)] ELSE r : r \in t}

\* update: set(patch) where id = id
ApplyPatch(r, patch) ==
    [c \in DOMAIN r |-> IF c \in DOMAIN patch THEN patch[c] ELSE r[c]]
UpdateSet(t, id, patch) ==
    {IF r.id = id THEN ApplyPatch(r, patch) ELSE r : r \in t}

\* delete without its guard: where id = id
SoftDeleteSetAnyRow(t, id, now) ==
    {IF r.id = id THEN [r EXCEPT !.deleted_at = Some(now)] ELSE r : r \in t}

\* delete: set deleted_at = CURRENT_TIMESTAMP where id = id and deleted_at is null
SoftDeleteSet(t, id, now) ==
    {IF r.id = id /\ IsNull(r.deleted_at)
        THEN [r EXCEPT !.deleted_at = Some(now)] ELSE r : r \in t}

\* restore with its guard inverted: where deleted_at is null
RestoreSetWhereActive(t, id) ==
    {IF r.id = id /\ IsNull(r.deleted_at)
        THEN [r EXCEPT !.deleted_at = Null] ELSE r : r \in t}

\* restore: set deleted_at = null where id = id and deleted_at is not null
RestoreSet(t, id) ==
    {IF r.id = id /\ ~IsNull(r.deleted_at)
        THEN [r EXCEPT !.deleted_at = Null] ELSE r : r \in t}

\* permanentDelete that spares soft-deleted rows
DeleteFromActive(t, id) == {r \in t : r.id # id \/ ~IsNull(r.deleted_at)}

\* permanentDelete: deleteFrom(table) where id = id
DeleteFrom(t, id) == {r \in t : r.id # id}

\* updatePriority: Number(current.priority); Number(null) is 0
NumberOf(x) == IF IsNull(x) THEN 0 ELSE Val(x)

\* the shift down without its upper bound: where priority > current
ShiftDownToTheEnd(t, current, target) ==
    {IF ~IsNull(r.priority) /\ Val(r.priority) > current
        THEN [r EXCEPT !.priority = Some(Val(r.priority) - 1)] ELSE r : r \in t}

\* updatePriority: priority - 1 where priority > current and priority <= target
ShiftDown(t, current, target) ==
    {IF ~IsNull(r.priority) /\ Val(r.priority) > current /\ Val(r.priority) <= target
        THEN [r EXCEPT !.priority = Some(Val(r.priority) - 1)] ELSE r : r \in t}

\* updatePriority: priority + 1 where priority >= target and priority < current
ShiftUp(t, current, target) ==
    {IF ~IsNull(r.priority) /\ Val(r.priority) >= target /\ Val(r.priority) < current
        THEN [r EXCEPT !.priority = Some(Val(r.priority) + 1)] ELSE r : r \in t}

\* updatePriority: the range shift chosen by comparing current and target
ShiftOthers(t, current, target) ==
    IF current < target THEN ShiftDown(t, current, target)
                        ELSE ShiftUp(t, current, target)

\* updatePriority: set priority = target where id = id
SetPriority(t, id, target) ==
    {IF r.id = id THEN [r EXCEPT !.priority = Some(target)] ELSE r : r \in t}

\* getById / list without the deleted_at filter
VisibleUnfiltered(t, includeDeleted) == t

\* getById / list: where deleted_at is null, unless includeDeleted
Visible(t, includeDeleted) ==
    IF softDelete /\ ~includeDeleted THEN {r \in t : IsNull(r.deleted_at)} ELSE t

----------------------------------------------------------------------------
(* AbstractTable: the public methods, as results of a whole call *)

\* list: default page size
ListLimit == 50

Min(a, b) == IF a < b THEN a ELSE b

\* orderBy(column, 'asc'): NULL sorts first on sqlite, last on postgres
OrderKey(r, column) ==
    IF column = "id" THEN r.id
    ELSE IF IsNull(r.priority)
         THEN (IF dialect = "sqlite" THEN -1000 ELSE 1000)
         ELSE Val(r.priority)

\* every order in which the store may return rs under orderBy(column, 'asc'):
\* rows with equal keys come in any order
RECURSIVE Orderings(_, _)
Orderings(rs, column) ==
    IF rs = {} THEN {<<>>}
    ELSE UNION {{<<r>> \o s : s \in Orderings(rs \ {r}, column)} :
                   r \in {x \in rs : \A y \in rs :
                              OrderKey(x, column) <= OrderKey(y, column)}}

\* limit(limit).offset(offset)
Page(s, limit, offset) == SubSeq(s, offset + 1, Min(Len(s), offset + limit))

\* the transaction body of create: insert, then stamp, then select
createInserted(t, id, p, name, now) == InsertInto(t, id, p, name, now)
createStamps(p) == hasPriority /\ ~providedPriority(p)
createTable(t, id, p, name, now) ==
    IF createStamps(p) THEN StampPriority(createInserted(t, id, p, name, now))
                       ELSE createInserted(t, id, p, name, now)
createReturn(t, id, p, name, now) ==
    IF createStamps(p)
        THEN TakeFirst(WhereId(createTable(t, id, p, name, now), id))
        ELSE TakeFirst(WhereId(createInserted(t, id, p, name, now), id))

\* getById
getById(t, id, includeDeleted) ==
    IF ~ensureValidId(id) THEN ErrorRet("InvalidArgument")
    ELSE TakeFirst(WhereId(Visible(t, includeDeleted), id[2]))

\* list with orderBy: the pages the store may return
list(t, includeDeleted, column) ==
    {Page(s, ListLimit, 0) : s \in Orderings(Visible(t, includeDeleted), column)}

\* delete: permanent without soft delete, else the deleted_at stamp
deleteTable(t, id, now) ==
    IF ~softDelete THEN DeleteFrom(t, id) ELSE SoftDeleteSet(t, id, now)
deleteReturn(t, id, now) ==
    IF ~softDelete THEN Absent ELSE TakeFirst(SoftDeleteSet(t, id, now) \ t)

\* restore, once soft delete is known to be enabled and the id valid
restoreTable(t, id) == RestoreSet(t, id)
restoreReturn(t, id) == TakeFirst(RestoreSet(t, id) \ t)

\* updatePriority: the validation before the transaction
validTarget(target) == NumberIsInteger(target) /\ target[2] >= 0

\* updatePriority: the transaction body
updatePriorityTable(t, id, target) ==
    LET cur == WhereId(t, id) IN
    IF cur = {} THEN t
    ELSE LET currentPriority == NumberOf((CHOOSE r \in cur : TRUE).priority) IN
         IF currentPriority = target THEN t
         ELSE SetPriority(ShiftOthers(t, currentPriority, target), id, target)

updatePriorityReturn(t, id, target) ==
    IF WhereId(t, id) = {} THEN ErrorRet("NotFound")
    ELSE TakeFirst(WhereId(updatePriorityTable(t, id, target), id))

----------------------------------------------------------------------------
(* AbstractTable: the public methods with their validation, from the call of *)
(* the method to its return or throw                                         *)

\* ensureValidId(id) as the first statement of a method
idError(id) == IF ~ensureValidId(id) THEN "InvalidArgument" ELSE "none"

updateError(id) == idError(id)
updateCallTable(t, id, patch) ==
    IF updateError(id) # "none" THEN t ELSE UpdateSet(t, id[2], patch)
updateCallReturn(t, id, patch) ==
    IF updateError(id) # "none" THEN ErrorRet(updateError(id))
    ELSE TakeFirst(WhereId(UpdateSet(t, id[2], patch), id[2]))

permanentDeleteError(id) == idError(id)
permanentDeleteTable(t, id) ==
    IF permanentDeleteError(id) # "none" THEN t ELSE DeleteFrom(t, id[2])
permanentDeleteReturn(t, id) ==
    IF permanentDeleteError(id) # "none" THEN ErrorRet(permanentDeleteError(id))
    ELSE CountRet(Cardinality(t) - Cardinality(DeleteFrom(t, id[2])))

deleteError(id) == idError(id)
deleteCallTable(t, id, now) ==
    IF deleteError(id) # "none" THEN t ELSE deleteTable(t, id[2], now)
deleteCallReturn(t, id, now) ==
    IF deleteError(id) # "none" THEN ErrorRet(deleteError(id))
    ELSE deleteReturn(t, id[2], now)

\* restore that validates the id only
restoreErrorIdOnly(id) == idError(id)
\* restore: the feature test, then ensureValidId
restoreError(id) ==
    IF ~softDelete THEN "FeatureDisabled" ELSE idError(id)
restoreCallTable(t, id) ==
    IF restoreError(id) # "none" THEN t ELSE restoreTable(t, id[2])
restoreCallReturn(t, id) ==
    IF restoreError(id) # "none" THEN ErrorRet(restoreError(id))
    ELSE restoreReturn(t, id[2])

\* updatePriority that does not validate the target
updatePriorityErrorAnyTarget(id, target) ==
    IF ~hasPriority THEN "FeatureDisabled" ELSE idError(id)
\* updatePriority: the feature test, ensureValidId, then the target
updatePriorityError(id, target) ==
    IF ~hasPriority THEN "FeatureDisabled"
    ELSE IF ~ensureValidId(id) THEN "InvalidArgument"
    ELSE IF ~validTarget(target) THEN "InvalidArgument"
    ELSE "none"
updatePriorityCallTable(t, id, target) ==
    IF updatePriorityError(id, target) # "none" THEN t
    ELSE updatePriorityTable(t, id[2], target[2])
updatePriorityCallReturn(t, id, target) ==
    IF updatePriorityError(id, target) # "none"
        THEN ErrorRet(updatePriorityError(id, target))
        ELSE updatePriorityReturn(t, id[2], target[2])

----------------------------------------------------------------------------
(* Inputs of the calls *)

IdInputs == {JsInt(i) : i \in 0..MaxRows} \cup {JsFrac(1)}
PriorityInputs ==
    {JsUndefined, JsNull, JsInt(-1), JsFrac(1)} \cup {JsInt(p) : p \in 0..MaxPriority}
TargetInputs == {JsInt(-1), JsFrac(1)} \cup {JsInt(p) : p \in 0..MaxPriority}
PatchInputs == {[priority |-> Null]} \cup {[priority |-> Some(p)] : p \in 0..MaxPriority}
OrderInputs == {"id", "priority"}

Idle == [pc |-> "idle"]

----------------------------------------------------------------------------
(* AbstractTable: one action per public method, each call run to completion *)

\* the store before ensureSchema: the table does not exist
NoTable == [exists |-> FALSE, cols |-> {}]

\* the callers whose calls run concurrently; none has a call in flight
Callers == {1, 2}
NoCalls == [c \in Callers |-> Idle]

\* the tables are empty, no call has been made
InitStores ==
    /\ rows = {}
    /\ nextId = 1
    /\ clock = 0
    /\ trx = Idle
    /\ cache = {}
    /\ cacheNextId = 1
    /\ kv = {}
    /\ kvTrx = Idle
    /\ docs = {}
    /\ docNextId = 1
    /\ schema = NoTable
    /\ calls = NoCalls
    /\ last = [op |-> "none", ret |-> Absent]

\* a repository with soft delete and priorities on either dialect
InitTables ==
    /\ hasPriority = TRUE
    /\ softDelete = TRUE
    /\ dialect \in {"postgres", "sqlite"}
    /\ InitStores

\* no JSON table is constructed: the whitelist is the empty one
Init == InitTables /\ supportedTypes = {}

Create(p, name) ==
    /\ trx = Idle
    /\ nextId <= MaxRows
    /\ rows' = createTable(rows, nextId, p, name, clock)
    /\ nextId' = nextId + 1
    /\ last' = [op |-> "create", auto |-> createStamps(p),
                ret |-> createReturn(rows, nextId, p, name, clock)]
    /\ UNCHANGED <<cfgVars, concVars, schemaVars, kvVars, jsonVars, clock, trx, cacheVars>>

GetById(id, includeDeleted) ==
    /\ last' = [op |-> "getById", incl |-> includeDeleted,
                ret |-> getById(rows, id, includeDeleted)]
    /\ UNCHANGED <<cfgVars, concVars, schemaVars, kvVars, jsonVars, tableVars, clock, cacheVars>>

List(includeDeleted, column) ==
    /\ \E page \in list(rows, includeDeleted, column) :
          last' = [op |-> "list", incl |-> includeDeleted,
                   ret |-> [kind |-> "rows", rows |-> page]]
    /\ UNCHANGED <<cfgVars, concVars, schemaVars, kvVars, jsonVars, tableVars, clock, cacheVars>>

Update(id, patch) ==
    /\ trx = Idle
    /\ rows' = updateCallTable(rows, id, patch)
    /\ last' = [op |-> "update", ret |-> updateCallReturn(rows, id, patch)]
    /\ UNCHANGED <<cfgVars, concVars, schemaVars, kvVars, jsonVars, nextId, clock, trx, cacheVars>>

PermanentDelete(id) ==
    /\ trx = Idle
    /\ rows' = permanentDeleteTable(rows, id)
    /\ last' = [op |-> "permanentDelete", ret |-> permanentDeleteReturn(rows, id),
                removed |-> rows \ permanentDeleteTable(rows, id)]
    /\ UNCHANGED <<cfgVars, concVars, schemaVars, kvVars, jsonVars, nextId, clock, trx, cacheVars>>

Delete(id) ==
    /\ trx = Idle
    /\ rows' = deleteCallTable(rows, id, clock)
    /\ last' = [op |-> "delete", ret |-> deleteCallReturn(rows, id, clock),
                removed |-> rows \ deleteCallTable(rows, id, clock)]
    /\ UNCHANGED <<cfgVars, concVars, schemaVars, kvVars, jsonVars, nextId, clock, trx, cacheVars>>

Restore(id) ==
    /\ trx = Idle
    /\ rows' = restoreCallTable(rows, id)
    /\ last' = [op |-> "restore", ret |-> restoreCallReturn(rows, id)]
    /\ UNCHANGED <<cfgVars, concVars, schemaVars, kvVars, jsonVars, nextId, clock, trx, cacheVars>>

UpdatePriority(id, target) ==
    /\ trx = Idle
    /\ rows' = updatePriorityCallTable(rows, id, target)
    /\ last' = [op |-> "updatePriority",
                ret |-> updatePriorityCallReturn(rows, id, target)]
    /\ UNCHANGED <<cfgVars, concVars, schemaVars, kvVars, jsonVars, nextId, clock, trx, cacheVars>>

Next ==
    \/ \E p \in PriorityInputs : Create(p, "a")
    \/ \E id \in IdInputs, incl \in BOOLEAN : GetById(id, incl)
    \/ \E incl \in BOOLEAN, column \in OrderInputs : List(incl, column)
    \/ \E id \in IdInputs, patch \in PatchInputs : Update(id, patch)
    \/ \E id \in IdInputs : Delete(id)
    \/ \E id \in IdInputs : Restore(id)
    \/ \E id \in IdInputs : PermanentDelete(id)
    \/ \E id \in IdInputs, target \in TargetInputs : UpdatePriority(id, target)

Spec == Init /\ [][Next]_vars

\* CURRENT_TIMESTAMP moves on by one hour
Tick(max) ==
    /\ clock < max * ONE_HOUR
    /\ clock' = clock + ONE_HOUR
    /\ UNCHANGED <<cfgVars, concVars, schemaVars, kvVars, jsonVars, tableVars, cacheVars, last>>

\* a base repository constructed with any of the four feature configurations;
\* rows it may hold
MaxFeatureRows == 1

\* NaN, Infinity and a string, as values handed to a method as id
JsNaN == <<"nan", 0>>
JsInfinity == <<"infinity", 0>>
JsString(str) == <<"str", str>>
InvalidIdInputs == {JsInt(0), JsInt(-1), JsFrac(1), JsNaN, JsInfinity, JsString("1")}
FeatureIdInputs == InvalidIdInputs \cup {JsInt(i) : i \in 1..MaxFeatureRows + 1}
\* patches of update: a declared column, deleted_at, created_at
FeaturePatchInputs ==
    {[priority |-> Some(1)], [deleted_at |-> Some(0)], [created_at |-> ONE_HOUR]}

\* ensureSchema: the priority column and the deleted_at column are created
\* only for a table configured with the feature
PatchColumnsExist(patch) ==
    /\ "priority" \in DOMAIN patch => hasPriority
    /\ "deleted_at" \in DOMAIN patch => softDelete

InitFeatures ==
    /\ hasPriority \in BOOLEAN
    /\ softDelete \in BOOLEAN
    /\ dialect \in {"postgres", "sqlite"}
    /\ supportedTypes = {}
    /\ InitStores

NextFeatures ==
    \/ nextId <= MaxFeatureRows /\ Create(JsUndefined, "a")
    \/ \E id \in FeatureIdInputs, incl \in BOOLEAN : GetById(id, incl)
    \/ \E id \in FeatureIdInputs, patch \in FeaturePatchInputs :
          PatchColumnsExist(patch) /\ Update(id, patch)
    \/ \E id \in FeatureIdInputs : Delete(id)
    \/ \E id \in FeatureIdInputs : Restore(id)
    \/ \E id \in FeatureIdInputs : PermanentDelete(id)
    \/ \E id \in FeatureIdInputs, target \in TargetInputs : UpdatePriority(id, target)

SpecFeatures == InitFeatures /\ [][NextFeatures]_vars

\* the soft-delete life cycle of rows over time: create, delete, restore,
\* permanentDelete and the reads
NextSoftDelete ==
    \/ Create(JsUndefined, "a")
    \/ \E id \in IdInputs, incl \in BOOLEAN : GetById(id, incl)
    \/ \E incl \in BOOLEAN, column \in OrderInputs : List(incl, column)
    \/ \E id \in IdInputs : Delete(id)
    \/ \E id \in IdInputs : Restore(id)
    \/ \E id \in IdInputs : PermanentDelete(id)
    \/ Tick(MaxTableClock)

SpecSoftDelete == Init /\ [][NextSoftDelete]_vars

----------------------------------------------------------------------------
(* AbstractTable: create and updatePriority statement by statement inside    *)
(* db.transaction().execute(): the statements run on the transaction's own   *)
(* view of the table (trx.work); commit publishes it, a failure of any       *)
(* statement or of the commit rolls it back. Other connections (this.db)     *)
(* read and write the committed table (rows).                                *)

\* the insert of create issued on this.db, outside the transaction
createInsertExecutorDb == "db"

\* the executor each statement of the two transaction bodies is issued on
createInsertExecutor == "trx"
createStampExecutor == "trx"
createSelectExecutor == "trx"
updatePriorityReadExecutor == "trx"
updatePriorityShiftExecutor == "trx"
updatePrioritySetExecutor == "trx"

\* the table a statement issued on executor ex sees
Source(ex) == IF ex = "trx" THEN trx.work ELSE rows

\* a statement issued on ex leaves table t2; the call moves on to pc2 holding ret2
Store(ex, t2, pc2, ret2) ==
    IF ex = "trx"
        THEN /\ trx' = [trx EXCEPT !.work = t2, !.pc = pc2, !.ret = ret2]
             /\ rows' = rows
        ELSE /\ trx' = [trx EXCEPT !.pc = pc2, !.ret = ret2]
             /\ rows' = t2

\* create: obj.priority as the values carry it into the transaction
normalisedPriority(p) == IF providedPriority(p) THEN p ELSE JsNull

TrxCreateBegin(p, name) ==
    /\ trx = Idle
    /\ nextId <= MaxTrxRows
    /\ trx' = [pc |-> "c_begin", op |-> "create", before |-> rows, work |-> rows,
               seq |-> nextId, id |-> nextId, p |-> normalisedPriority(p), name |-> name,
               target |-> 0, cur |-> 0, ret |-> Absent]
    /\ UNCHANGED <<cfgVars, concVars, schemaVars, kvVars, jsonVars, rows, nextId, clock, cacheVars, last>>

TrxCreateInsert ==
    /\ trx.pc = "c_begin"
    /\ LET t2 == InsertInto(Source(createInsertExecutor), trx.id, trx.p, trx.name, clock)
       IN Store(createInsertExecutor, t2,
                IF createStamps(trx.p) THEN "c_inserted" ELSE "done",
                TakeFirst(WhereId(t2, trx.id)))
    /\ nextId' = nextId + 1
    /\ UNCHANGED <<cfgVars, concVars, schemaVars, kvVars, jsonVars, clock, cacheVars, last>>

TrxCreateStamp ==
    /\ trx.pc = "c_inserted"
    /\ Store(createStampExecutor, StampPriority(Source(createStampExecutor)),
             "c_stamped", trx.ret)
    /\ UNCHANGED <<cfgVars, concVars, schemaVars, kvVars, jsonVars, nextId, clock, cacheVars, last>>

TrxCreateSelect ==
    /\ trx.pc = "c_stamped"
    /\ Store(createSelectExecutor, Source(createSelectExecutor), "done",
             TakeFirst(WhereId(Source(createSelectExecutor), trx.id)))
    /\ UNCHANGED <<cfgVars, concVars, schemaVars, kvVars, jsonVars, nextId, clock, cacheVars, last>>

TrxUpdatePriorityBegin(id, target) ==
    /\ trx = Idle
    /\ hasPriority /\ ensureValidId(id) /\ validTarget(target)
    /\ trx' = [pc |-> "u_begin", op |-> "updatePriority", before |-> rows, work |-> rows,
               seq |-> nextId, id |-> id[2], p |-> JsUndefined, name |-> "a",
               target |-> target[2], cur |-> 0, ret |-> Absent]
    /\ UNCHANGED <<cfgVars, concVars, schemaVars, kvVars, jsonVars, rows, nextId, clock, cacheVars, last>>

\* select id, priority where id = id; a missing row throws, which rolls back
TrxUpdatePriorityRead ==
    /\ trx.pc = "u_begin"
    /\ LET cur == WhereId(Source(updatePriorityReadExecutor), trx.id) IN
       IF cur = {}
          THEN /\ trx' = Idle
               /\ nextId' = IF dialect = "sqlite" THEN trx.seq ELSE nextId
               /\ last' = [op |-> trx.op, at |-> trx.pc, ret |-> ErrorRet("NotFound")]
          ELSE /\ trx' = [trx EXCEPT
                            !.cur = NumberOf((CHOOSE r \in cur : TRUE).priority),
                            !.pc = IF NumberOf((CHOOSE r \in cur : TRUE).priority) = trx.target
                                      THEN "u_same" ELSE "u_read"]
               /\ UNCHANGED <<nextId, last>>
    /\ UNCHANGED <<cfgVars, concVars, schemaVars, kvVars, jsonVars, rows, clock, cacheVars>>

TrxUpdatePrioritySelectSame ==
    /\ trx.pc = "u_same"
    /\ Store(updatePriorityReadExecutor, Source(updatePriorityReadExecutor), "done",
             TakeFirst(WhereId(Source(updatePriorityReadExecutor), trx.id)))
    /\ UNCHANGED <<cfgVars, concVars, schemaVars, kvVars, jsonVars, nextId, clock, cacheVars, last>>

TrxUpdatePriorityShift ==
    /\ trx.pc = "u_read"
    /\ Store(updatePriorityShiftExecutor,
             ShiftOthers(Source(updatePriorityShiftExecutor), trx.cur, trx.target),
             "u_shifted", trx.ret)
    /\ UNCHANGED <<cfgVars, concVars, schemaVars, kvVars, jsonVars, nextId, clock, cacheVars, last>>

TrxUpdatePrioritySet ==
    /\ trx.pc = "u_shifted"
    /\ LET t2 == SetPriority(Source(updatePrioritySetExecutor), trx.id, trx.target)
       IN Store(updatePrioritySetExecutor, t2, "done", TakeFirst(WhereId(t2, trx.id)))
    /\ UNCHANGED <<cfgVars, concVars, schemaVars, kvVars, jsonVars, nextId, clock, cacheVars, last>>

\* the callback returned: the transaction commits and the call returns
TrxCommit ==
    /\ trx # Idle
    /\ trx.pc = "done"
    /\ rows' = trx.work
    /\ trx' = Idle
    /\ last' = IF trx.op = "create"
                  THEN [op |-> "create", auto |-> createStamps(trx.p), ret |-> trx.ret]
                  ELSE [op |-> trx.op, ret |-> trx.ret]
    /\ UNCHANGED <<cfgVars, concVars, schemaVars, kvVars, jsonVars, nextId, clock, cacheVars>>

\* the next statement, or the commit, fails: rollback, and the error propagates.
\* serial (postgres) keeps the ids it handed out, sqlite's sequence rolls back.
TrxFail ==
    /\ trx # Idle
    /\ trx' = Idle
    /\ rows' = rows
    /\ nextId' = IF dialect = "sqlite" THEN trx.seq ELSE nextId
    /\ last' = [op |-> trx.op, at |-> trx.pc, ret |-> ErrorRet("StoreFailure")]
    /\ UNCHANGED <<cfgVars, concVars, schemaVars, kvVars, jsonVars, clock, cacheVars>>

NextTrx ==
    \/ \E pr \in PriorityInputs : TrxCreateBegin(pr, "a")
    \/ TrxCreateInsert
    \/ TrxCreateStamp
    \/ TrxCreateSelect
    \/ \E id \in IdInputs, target \in TargetInputs : TrxUpdatePriorityBegin(id, target)
    \/ TrxUpdatePriorityRead
    \/ TrxUpdatePrioritySelectSame
    \/ TrxUpdatePriorityShift
    \/ TrxUpdatePrioritySet
    \/ TrxCommit
    \/ TrxFail
    \/ \E id \in IdInputs : GetById(id, FALSE)
    \/ \E column \in OrderInputs : List(FALSE, column)

SpecTrx == Init /\ [][NextTrx]_vars

----------------------------------------------------------------------------
(* AbstractTable: two callers run updatePriority at the same time. Each call  *)
(* is one db.transaction().execute() with the isolation level the store      *)
(* defaults to: a statement sees the committed table, the writes of a        *)
(* transaction stay in its own view (work) until it commits, and a second    *)
(* writer waits for the first one's commit. The one connection of the sqlite *)
(* dialect is held by a transaction from its begin to its end.               *)

\* rows the table holds while the two calls race
MaxRaceRows == 3

\* the ids of the rows and one id no row holds
RaceIdInputs == {JsInt(i) : i \in 1..MaxRaceRows + 1}
RaceTargetInputs == {JsInt(p) : p \in 1..MaxRaceRows}

\* positions at which a call holds uncommitted writes
Writing == {"u_shifted", "u_set"}
OthersWriting(c) == \E o \in Callers \ {c} : calls[o].pc \in Writing

\* each caller makes one call: its frame once the call has returned or thrown
Returned == [pc |-> "returned"]
BothReturned == \A c \in Callers : calls[c].pc = "returned"

\* whether the transaction of a caller may begin: sqlite hands its only
\* connection to one transaction at a time
ConnectionFree(c) ==
    dialect = "sqlite" => \A o \in Callers \ {c} : calls[o].pc \in {"idle", "returned"}

RaceCreate ==
    /\ calls = NoCalls
    /\ nextId <= MaxRaceRows
    /\ Create(JsUndefined, "a")

RaceBegin(c, id, target) ==
    /\ calls[c] = Idle
    /\ ConnectionFree(c)
    /\ nextId > MaxRaceRows
    /\ updatePriorityError(id, target) = "none"
    /\ calls' = [calls EXCEPT ![c] =
                    [pc |-> "u_begin", id |-> id[2], target |-> target[2],
                     cur |-> 0, work |-> {}, ret |-> Absent]]
    /\ UNCHANGED <<cfgVars, schemaVars, kvVars, jsonVars, tableVars, clock, cacheVars, last>>

\* select id, priority where id = id: a missing row throws and rolls back
RaceRead(c) ==
    /\ calls[c].pc = "u_begin"
    /\ LET cur == WhereId(rows, calls[c].id) IN
       IF cur = {}
          THEN /\ calls' = [calls EXCEPT ![c] = Returned]
               /\ last' = [op |-> "updatePriority", caller |-> c,
                           ret |-> ErrorRet("NotFound")]
          ELSE /\ calls' = [calls EXCEPT
                              ![c].cur = NumberOf((CHOOSE r \in cur : TRUE).priority),
                              ![c].pc = IF NumberOf((CHOOSE r \in cur : TRUE).priority)
                                             = calls[c].target
                                           THEN "u_same" ELSE "u_read"]
               /\ last' = last
    /\ UNCHANGED <<cfgVars, schemaVars, kvVars, jsonVars, tableVars, clock, cacheVars>>

\* currentPriority === targetPriority: select the row and return it
RaceSelectSame(c) ==
    /\ calls[c].pc = "u_same"
    /\ calls' = [calls EXCEPT ![c].ret = TakeFirst(WhereId(rows, calls[c].id)),
                              ![c].pc = "u_selected"]
    /\ UNCHANGED <<cfgVars, schemaVars, kvVars, jsonVars, tableVars, clock, cacheVars, last>>

\* the range shift, on the table as committed when the statement runs, with
\* the current priority the call read earlier
RaceShift(c) ==
    /\ calls[c].pc = "u_read"
    /\ ~OthersWriting(c)
    /\ calls' = [calls EXCEPT
                    ![c].work = ShiftOthers(rows, calls[c].cur, calls[c].target),
                    ![c].pc = "u_shifted"]
    /\ UNCHANGED <<cfgVars, schemaVars, kvVars, jsonVars, tableVars, clock, cacheVars, last>>

\* set priority = target where id = id returning *
RaceSet(c) ==
    /\ calls[c].pc = "u_shifted"
    /\ LET t2 == SetPriority(calls[c].work, calls[c].id, calls[c].target) IN
       calls' = [calls EXCEPT ![c].work = t2,
                              ![c].ret = TakeFirst(WhereId(t2, calls[c].id)),
                              ![c].pc = "u_set"]
    /\ UNCHANGED <<cfgVars, schemaVars, kvVars, jsonVars, tableVars, clock, cacheVars, last>>

\* the callback returned: the transaction commits and the call returns
RaceCommit(c) ==
    /\ calls[c].pc \in {"u_set", "u_selected"}
    /\ rows' = IF calls[c].pc = "u_set" THEN calls[c].work ELSE rows
    /\ calls' = [calls EXCEPT ![c] = Returned]
    /\ last' = [op |-> "updatePriority", caller |-> c, ret |-> calls[c].ret]
    /\ UNCHANGED <<cfgVars, schemaVars, kvVars, jsonVars, nextId, trx, clock, cacheVars>>

NextRace ==
    \/ RaceCreate
    \/ \E c \in Callers, id \in RaceIdInputs, target \in RaceTargetInputs :
          RaceBegin(c, id, target)
    \/ \E c \in Callers : RaceRead(c)
    \/ \E c \in Callers : RaceSelectSame(c)
    \/ \E c \in Callers : RaceShift(c)
    \/ \E c \in Callers : RaceSet(c)
    \/ \E c \in Callers : RaceCommit(c)

SpecRace == Init /\ [][NextRace]_vars

----------------------------------------------------------------------------
(* AbstractCacheRepository: the SQL predicates and statements *)

\* a select field that is not given
Undef == "undefined"
Keys == {"k1", "k2"}
Types == {"T"}

\* the JSON helpers of ./utilities
toJsonContent(v) == v
fromJsonContent(v) == v

\* <<"sparse", n>> is the object <<"obj", n>> with one more field, whose value
\* is undefined. JSON has no undefined: the JSON form of a value drops the field.
JsonForm(v) == IF v[1] = "sparse" THEN <<"obj", v[2]>> ELSE v
\* JSON.stringify: the text of the JSON form
JSONStringify(v) == <<"text", JsonForm(v)>>
\* what a json column holds of a value the driver is handed
JsonColumn(v) == JsonForm(v)

\* encodeJson: sqlite stores JSON.stringify(json) as text, postgres the json
encodeJson(v) ==
    IF dialect = "sqlite" THEN JSONStringify(toJsonContent(v))
                          ELSE JsonColumn(toJsonContent(v))

\* decodeJson: sqlite parses a string, postgres hands the json back
decodeJson(v) ==
    IF dialect = "sqlite" /\ v[1] = "text" THEN fromJsonContent(v[2]) ELSE fromJsonContent(v)

\* expiredValue: a boolean on postgres, 0/1 on sqlite
expiredValue(val) == IF dialect = "postgres" THEN val ELSE IF val THEN 1 ELSE 0

\* notExpiredPredicate: expired IS NOT TRUE / COALESCE(expired, 0) = 0
notExpiredPredicate(r) ==
    IF dialect = "postgres" THEN r.expired # Some(TRUE)
    ELSE (IF IsNull(r.expired) THEN 0 ELSE Val(r.expired)) = 0

\* expiredPredicate: expired IS TRUE / expired = 1
expiredPredicate(r) ==
    IF dialect = "postgres" THEN r.expired = Some(TRUE)
    ELSE ~IsNull(r.expired) /\ Val(r.expired) = 1

\* nowMinusSecondsExpr: now() - ttl seconds, computed by the store
nowMinusSecondsExpr(ttlSeconds, now) == now - ttlSeconds

\* ensureSelectNotEmpty that accepts every select
ensureSelectNotEmptyAccepts(select) == TRUE

\* ensureSelectNotEmpty: some field of select is not undefined
ensureSelectNotEmpty(select) == \E k \in DOMAIN select : select[k] # Undef

\* applyFilters: where k = v for every field of select that is not undefined
applyFilters(t, select) ==
    {r \in t : \A k \in DOMAIN select : select[k] # Undef => r[k] = select[k]}

\* applyTtlFilters without the case of TTL.UNLIMITED
applyTtlFiltersNoUnlimited(t, ttl, now) ==
    IF ttl = NOT_EXPIRED THEN {r \in t : notExpiredPredicate(r)}
    ELSE IF ttl = EXPIRED THEN {r \in t : expiredPredicate(r)}
    ELSE {r \in t : r.created_at >= nowMinusSecondsExpr(ttl, now) /\ notExpiredPredicate(r)}

\* applyTtlFilters: the switch over the ttl
applyTtlFilters(t, ttl, now) ==
    IF ttl = NOT_EXPIRED THEN {r \in t : notExpiredPredicate(r)}
    ELSE IF ttl = EXPIRED THEN {r \in t : expiredPredicate(r)}
    ELSE IF ttl = UNLIMITED THEN t
    ELSE {r \in t : r.created_at >= nowMinusSecondsExpr(ttl, now) /\ notExpiredPredicate(r)}

\* ttl ?? TTL.NOT_EXPIRED
ttlOrDefault(ttl) == IF ttl = JsUndefined THEN NOT_EXPIRED ELSE ttl[2]

\* the same two columns in ascending order
RECURSIVE OldestFirst(_)
OldestFirst(rs) ==
    IF rs = {} THEN <<>>
    ELSE LET top == CHOOSE x \in rs : \A y \in rs :
                        \/ x.created_at < y.created_at
                        \/ (x.created_at = y.created_at /\ x.id <= y.id)
         IN <<top>> \o OldestFirst(rs \ {top})

\* orderBy('created_at', 'desc').orderBy('id', 'desc')
RECURSIVE NewestFirst(_)
NewestFirst(rs) ==
    IF rs = {} THEN <<>>
    ELSE LET top == CHOOSE x \in rs : \A y \in rs :
                        \/ x.created_at > y.created_at
                        \/ (x.created_at = y.created_at /\ x.id >= y.id)
         IN <<top>> \o NewestFirst(rs \ {top})

\* the rows a read with select and ttl is about
cacheMatches(t, select, ttl, now) ==
    applyTtlFilters(applyFilters(t, select), ttlOrDefault(ttl), now)

\* getAll: the CacheEntry made of a row
toCacheEntry(r) ==
    [id |-> r.id, key |-> r.key, type |-> r.type, content |-> decodeJson(r.content),
     expired |-> r.expired, createdAt |-> r.created_at]

EntriesRet(s) == [kind |-> "entries", entries |-> s]
ContentRet(c) == [kind |-> "content", content |-> c]
BoolRet(b) == [kind |-> "bool", value |-> b]

getAll(t, select, ttl, now) ==
    IF ~ensureSelectNotEmpty(select) THEN ErrorRet("InvalidArgument")
    ELSE LET s == NewestFirst(cacheMatches(t, select, ttl, now))
         IN EntriesRet([i \in 1..Len(s) |-> toCacheEntry(s[i])])

\* getLast: limit(1), the decoded content or null
getLast(t, select, ttl, now) ==
    IF ~ensureSelectNotEmpty(select) THEN ErrorRet("InvalidArgument")
    ELSE LET s == NewestFirst(cacheMatches(t, select, ttl, now))
         IN IF s = <<>> THEN ContentRet(JsNull) ELSE ContentRet(decodeJson(s[1].content))

\* isCached without applyTtlFilters
isCachedAnyTtl(t, select, ttl, now) ==
    IF ~ensureSelectNotEmpty(select) THEN ErrorRet("InvalidArgument")
    ELSE BoolRet(applyFilters(t, select) # {})

\* isCached: select id ... limit(1), !!row
isCached(t, select, ttl, now) ==
    IF ~ensureSelectNotEmpty(select) THEN ErrorRet("InvalidArgument")
    ELSE BoolRet(cacheMatches(t, select, ttl, now) # {})

\* expireEntries without the created_at window
expireTargetsAnyAge(t, select, ttl, now) ==
    {r \in applyFilters(t, select) : notExpiredPredicate(r)}

\* expireEntries: the rows of the update's where clause
expireTargets(t, select, ttl, now) ==
    {r \in applyFilters(t, select) :
        r.created_at >= nowMinusSecondsExpr(ttl, now) /\ notExpiredPredicate(r)}

\* expireEntries: set expired = expiredValue(true) on them
expireEntriesTable(t, select, ttl, now) ==
    {IF r \in expireTargets(t, select, ttl, now)
        THEN [r EXCEPT !.expired = Some(expiredValue(TRUE))] ELSE r : r \in t}

\* expireEntries without the test of ttl
expireEntriesAnyTtl(t, select, ttl, now) ==
    IF ~ensureSelectNotEmpty(select) THEN ErrorRet("InvalidArgument")
    ELSE CountRet(Cardinality(expireTargets(t, select, ttl, now)))

expireEntries(t, select, ttl, now) ==
    IF ttl <= 0 THEN ErrorRet("InvalidArgument")
    ELSE IF ~ensureSelectNotEmpty(select) THEN ErrorRet("InvalidArgument")
    ELSE CountRet(Cardinality(expireTargets(t, select, ttl, now)))

\* expireEntries: the table after the call
expireEntriesResultTable(t, select, ttl, now) ==
    IF expireEntries(t, select, ttl, now).kind = "error"
        THEN t ELSE expireEntriesTable(t, select, ttl, now)

\* cleanExpiredEntries without the expired predicate
cleanTargetsAnyFlag(t, select) == applyFilters(t, select)

\* cleanExpiredEntries: delete where filters and expired
cleanTargets(t, select) == {r \in applyFilters(t, select) : expiredPredicate(r)}

\* cleanExpiredEntries: the table after the delete
cleanExpiredEntriesTable(t, select) ==
    IF ensureSelectNotEmpty(select) THEN t \ cleanTargets(t, select) ELSE t

cleanExpiredEntries(t, select) ==
    IF ~ensureSelectNotEmpty(select) THEN ErrorRet("InvalidArgument")
    ELSE CountRet(Cardinality(cleanTargets(t, select)))

\* save that inserts the row with expired = true
savedRowAsExpired(id, record, content, now) ==
    [id |-> id, key |-> record.key, type |-> record.type, content |-> encodeJson(content),
     expired |-> Some(expiredValue(TRUE)), created_at |-> now]

\* save: the row of the insert
savedRow(id, record, content, now) ==
    [id |-> id, key |-> record.key, type |-> record.type, content |-> encodeJson(content),
     expired |-> Some(expiredValue(FALSE)), created_at |-> now]

\* save as an upsert on (key, type)
saveTableUpsert(t, id, record, content, now) ==
    {r \in t : r.key # record.key \/ r.type # record.type}
        \cup {savedRow(id, record, content, now)}

\* save: the table after the insert
saveTable(t, id, record, content, now) == t \cup {savedRow(id, record, content, now)}

----------------------------------------------------------------------------
(* AbstractCacheRepository: one action per public method *)

RecordInputs == [key : Keys, type : Types]
\* the content of the n-th save is undefined, null or the n-th object
ContentInputs(n) == {JsUndefined, JsNull, <<"obj", n>>}
\* a select names a key, a type, both or nothing
AllSelects == [key : Keys \cup {Undef}, type : Types \cup {Undef}]
SelectInputs ==
    {[key |-> "k1", type |-> Undef], [key |-> Undef, type |-> "T"],
     [key |-> Undef, type |-> Undef]}
\* ttls of one second and of one hour, and the sentinels
PositiveTtls == {1, ONE_HOUR}
AllTtls == PositiveTtls \cup {ONE_DAY, NOT_EXPIRED, EXPIRED, UNLIMITED}
ExpireTtlInputs == PositiveTtls \cup {NOT_EXPIRED, UNLIMITED}
\* a read's ttl may be omitted
AllReadTtls == {JsUndefined} \cup {JsInt(n) : n \in AllTtls}
ReadTtlInputs == {JsUndefined} \cup {JsInt(n) : n \in {1, EXPIRED, UNLIMITED}}

\* save: firstFails / retryFails say whether the store rejects the insert and
\* the retry without returning(['id'])

\* save without the retry in the catch block
saveInsertsNoRetry(content, firstFails, retryFails) ==
    content # JsUndefined /\ content # JsNull /\ ~firstFails

\* save: a row is inserted, by the insert or by its retry
saveInserts(content, firstFails, retryFails) ==
    content # JsUndefined /\ content # JsNull /\ ~(firstFails /\ retryFails)

\* save: the number of insert statements sent to the store
saveAttempts(content, firstFails, retryFails) ==
    IF content = JsUndefined \/ content = JsNull THEN 0
    ELSE IF firstFails THEN 2 ELSE 1

\* save whose rejected first insert left its row behind
saveResultTableKeepsRejected(t, id, record, content, firstFails, retryFails, now) ==
    IF content = JsUndefined \/ content = JsNull THEN t
    ELSE IF firstFails
        THEN saveTable(t, id + 1, record, content, now)
                 \cup {savedRow(id, record, content, now)}
        ELSE saveTable(t, id, record, content, now)

\* save: the table after the call, and what the call returns
saveResultTable(t, id, record, content, firstFails, retryFails, now) ==
    IF saveInserts(content, firstFails, retryFails)
        THEN saveTable(t, id, record, content, now) ELSE t

saveReturn(content, firstFails, retryFails) ==
    BoolRet(saveInserts(content, firstFails, retryFails))

Save(record, content, firstFails, retryFails) ==
    /\ cacheNextId <= MaxCacheRows
    /\ cache' = saveResultTable(cache, cacheNextId, record, content,
                                firstFails, retryFails, clock)
    /\ cacheNextId' = IF saveInserts(content, firstFails, retryFails)
                         THEN cacheNextId + 1 ELSE cacheNextId
    /\ last' = [op |-> "save", ret |-> saveReturn(content, firstFails, retryFails),
                attempts |-> saveAttempts(content, firstFails, retryFails)]
    /\ UNCHANGED <<cfgVars, concVars, schemaVars, kvVars, jsonVars, tableVars, clock>>

GetAll(select, ttl) ==
    /\ last' = [op |-> "getAll", ret |-> getAll(cache, select, ttl, clock)]
    /\ UNCHANGED <<cfgVars, concVars, schemaVars, kvVars, jsonVars, tableVars, clock, cacheVars>>

GetLast(select, ttl) ==
    /\ last' = [op |-> "getLast", ret |-> getLast(cache, select, ttl, clock)]
    /\ UNCHANGED <<cfgVars, concVars, schemaVars, kvVars, jsonVars, tableVars, clock, cacheVars>>

IsCached(select, ttl) ==
    /\ last' = [op |-> "isCached", ret |-> isCached(cache, select, ttl, clock)]
    /\ UNCHANGED <<cfgVars, concVars, schemaVars, kvVars, jsonVars, tableVars, clock, cacheVars>>

ExpireEntries(select, ttl) ==
    /\ last' = [op |-> "expireEntries", ttl |-> ttl,
                ret |-> expireEntries(cache, select, ttl, clock)]
    /\ cache' = expireEntriesResultTable(cache, select, ttl, clock)
    /\ UNCHANGED <<cfgVars, concVars, schemaVars, kvVars, jsonVars, tableVars, clock, cacheNextId>>

CleanExpiredEntries(select) ==
    /\ last' = [op |-> "cleanExpiredEntries", ret |-> cleanExpiredEntries(cache, select)]
    /\ cache' = cleanExpiredEntriesTable(cache, select)
    /\ UNCHANGED <<cfgVars, concVars, schemaVars, kvVars, jsonVars, tableVars, clock, cacheNextId>>

NextCache ==
    \/ \E record \in RecordInputs, content \in ContentInputs(cacheNextId), f1, f2 \in BOOLEAN :
          Save(record, content, f1, f2)
    \/ \E select \in SelectInputs, ttl \in ReadTtlInputs : GetAll(select, ttl)
    \/ \E select \in SelectInputs, ttl \in ReadTtlInputs : GetLast(select, ttl)
    \/ \E select \in SelectInputs, ttl \in ReadTtlInputs : IsCached(select, ttl)
    \/ \E select \in SelectInputs, ttl \in ExpireTtlInputs : ExpireEntries(select, ttl)
    \/ \E select \in SelectInputs : CleanExpiredEntries(select)
    \/ Tick(MaxClock)

SpecCache == Init /\ [][NextCache]_vars

----------------------------------------------------------------------------
(* AbstractKeyValueRepository: the statements and the methods *)

\* number of entries of the object handed to importData
MaxImportEntries == 2

KvKeys == {"A", "B"}
\* the empty string, and a structure that contains itself
EmptyString == <<"string", 0>>
Cyclic == <<"cyclic", 0>>
KvValueInputs ==
    {JsUndefined, JsNull, EmptyString, Cyclic, <<"obj", 1>>, <<"sparse", 2>>}

\* toJsonContent of ./utilities rejects what JSON cannot hold
toJsonContentThrows(v) == v = Cyclic
\* JSON.stringify throws on a circular structure
JSONStringifyThrows(v) == v = Cyclic

\* encodeJsonOrNull: '' and null (and undefined) become NULL
clearsValue(v) == v = EmptyString \/ v = JsNull \/ v = JsUndefined
\* encodeJsonOrNull without the test for ''
encodeJsonOrNullKeepsEmpty(v) ==
    IF v = JsNull \/ v = JsUndefined THEN Null ELSE Some(encodeJson(v))
encodeJsonOrNull(v) == IF clearsValue(v) THEN Null ELSE Some(encodeJson(v))
\* encodeJsonOrNull throws: toJsonContent, or JSON.stringify on sqlite
encodeJsonOrNullThrows(v) ==
    /\ ~clearsValue(v)
    /\ toJsonContentThrows(v) \/ (dialect = "sqlite" /\ JSONStringifyThrows(v))

\* decodeJson of the key-value repository: NULL is null
kvDecodeJson(col) == IF IsNull(col) THEN JsNull ELSE decodeJson(Val(col))

\* the store's identity of a new row (rowid / ctid)
NewRowN(t) == 1 + Cardinality({r.n : r \in t})

\* update ... set value, updated_at where key = key
KvUpdateSet(t, key, dbJson, now) ==
    {IF r.key = key THEN [r EXCEPT !.value = dbJson, !.updated_at = now] ELSE r : r \in t}
\* numUpdatedRows of that update
KvNumUpdated(t, key) == Cardinality({r \in t : r.key = key})
\* insert into ... values (key, value, updated_at)
KvInsertInto(t, key, dbJson, now) ==
    t \cup {[n |-> NewRowN(t), key |-> key, value |-> dbJson, updated_at |-> now]}

\* an insert after every update, whatever numUpdatedRows says
upsertAlwaysInsert(t, key, dbJson, now) ==
    KvInsertInto(KvUpdateSet(t, key, dbJson, now), key, dbJson, now)

\* update by key; insert if no row was updated
upsert(t, key, dbJson, now) ==
    IF KvNumUpdated(t, key) = 0 THEN KvInsertInto(t, key, dbJson, now)
                                ELSE KvUpdateSet(t, key, dbJson, now)

VoidRet == [kind |-> "void"]
UndefinedRet == [kind |-> "undefined"]
ValueRet(v) == [kind |-> "value", value |-> v]
KeysRet(f) == [kind |-> "keys", count |-> f]
ObjectRet(f) == [kind |-> "object", object |-> f]

\* setValue: fails names the statement the store rejects ("none", "update", "insert")
KvFailInputs == {"none", "update", "insert"}

\* setValue does not look at undefined before encoding
setValueReturnNoUndefinedCheck(t, key, value, fails) ==
    IF encodeJsonOrNullThrows(value) THEN ErrorRet("TypeError")
    ELSE IF fails = "update" THEN ErrorRet("StoreFailure")
    ELSE IF fails = "insert" /\ KvNumUpdated(t, key) = 0 THEN ErrorRet("StoreFailure")
    ELSE VoidRet

setValueReturn(t, key, value, fails) ==
    IF value = JsUndefined THEN ErrorRet("TypeError")
    ELSE IF encodeJsonOrNullThrows(value) THEN ErrorRet("TypeError")
    ELSE IF fails = "update" THEN ErrorRet("StoreFailure")
    ELSE IF fails = "insert" /\ KvNumUpdated(t, key) = 0 THEN ErrorRet("StoreFailure")
    ELSE VoidRet

setValueTable(t, key, value, fails, now) ==
    IF setValueReturn(t, key, value, fails) = VoidRet
        THEN upsert(t, key, encodeJsonOrNull(value), now) ELSE t

\* getValue: executeTakeFirst of the rows of the key; every result the store may give
getValue(t, key) ==
    IF {r \in t : r.key = key} = {} THEN {UndefinedRet}
    ELSE {ValueRet(kvDecodeJson(r.value)) : r \in {x \in t : x.key = key}}

\* getAllKeys: how often each key is in the returned array
getAllKeys(t) == KeysRet([k \in KvKeys |-> Cardinality({r \in t : r.key = k})])

\* exportData: result[row.key] = decoded value; every result the store's order allows
exportData(t) ==
    {ObjectRet(f) : f \in {g \in [{r.key : r \in t} -> {kvDecodeJson(r.value) : r \in t}] :
                              \A k \in DOMAIN g :
                                  \E r \in t : r.key = k /\ g[k] = kvDecodeJson(r.value)}}

----------------------------------------------------------------------------
(* AbstractKeyValueRepository: the actions; importData statement by statement *)

\* the objects handed to importData: Object.entries in insertion order
RECURSIVE EntrySeqs(_)
EntrySeqs(n) ==
    IF n = 0 THEN {<<>>}
    ELSE LET shorter == EntrySeqs(n - 1) IN
         shorter \cup
         {Append(s, [key |-> k, value |-> v]) :
             s \in {x \in shorter : Len(x) = n - 1}, k \in KvKeys, v \in KvValueInputs}
ObjInputs ==
    {s \in EntrySeqs(MaxImportEntries) :
        \A i, j \in 1..Len(s) : i # j => s[i].key # s[j].key}

\* the statements of importData run on the transaction (not on this.db)
importUpsertExecutorDb == "db"
importUpsertExecutor == "trx"

SetValue(key, value, fails) ==
    /\ kvTrx = Idle
    /\ kv' = setValueTable(kv, key, value, fails, clock)
    /\ last' = [op |-> "setValue", ret |-> setValueReturn(kv, key, value, fails)]
    /\ UNCHANGED <<cfgVars, concVars, schemaVars, jsonVars, tableVars, clock, cacheVars, kvTrx>>

GetValue(key) ==
    /\ \E ret \in getValue(kv, key) : last' = [op |-> "getValue", ret |-> ret]
    /\ UNCHANGED <<cfgVars, concVars, schemaVars, jsonVars, tableVars, clock, cacheVars, kvVars>>

GetAllKeys ==
    /\ last' = [op |-> "getAllKeys", ret |-> getAllKeys(kv)]
    /\ UNCHANGED <<cfgVars, concVars, schemaVars, jsonVars, tableVars, clock, cacheVars, kvVars>>

ExportData ==
    /\ \E ret \in exportData(kv) : last' = [op |-> "exportData", ret |-> ret]
    /\ UNCHANGED <<cfgVars, concVars, schemaVars, jsonVars, tableVars, clock, cacheVars, kvVars>>

\* importData: db.transaction().execute begins
ImportBegin(obj) ==
    /\ kvTrx = Idle
    /\ kvTrx' = [pc |-> "entries", obj |-> obj, todo |-> obj, before |-> kv, work |-> kv]
    /\ UNCHANGED <<cfgVars, concVars, schemaVars, jsonVars, tableVars, clock, cacheVars, kv, last>>

\* importData: one turn of the loop over Object.entries(obj)
ImportEntry ==
    /\ kvTrx # Idle
    /\ kvTrx.todo # <<>>
    /\ LET e == Head(kvTrx.todo) IN
       IF e.value = JsUndefined
          THEN /\ kvTrx' = [kvTrx EXCEPT !.todo = Tail(kvTrx.todo)]
               /\ UNCHANGED <<kv, last>>
       ELSE IF encodeJsonOrNullThrows(e.value)
          THEN /\ kvTrx' = Idle
               /\ last' = [op |-> "importData", ret |-> ErrorRet("TypeError"),
                           partial |-> kvTrx.work # kvTrx.before]
               /\ UNCHANGED kv
       ELSE IF importUpsertExecutor = "trx"
          THEN /\ kvTrx' = [kvTrx EXCEPT
                               !.todo = Tail(kvTrx.todo),
                               !.work = upsert(kvTrx.work, e.key,
                                               encodeJsonOrNull(e.value), clock)]
               /\ UNCHANGED <<kv, last>>
          ELSE /\ kvTrx' = [kvTrx EXCEPT !.todo = Tail(kvTrx.todo)]
               /\ kv' = upsert(kv, e.key, encodeJsonOrNull(e.value), clock)
               /\ UNCHANGED last
    /\ UNCHANGED <<cfgVars, concVars, schemaVars, jsonVars, tableVars, clock, cacheVars>>

\* importData: the loop is over, the transaction commits
ImportCommit ==
    /\ kvTrx # Idle
    /\ kvTrx.todo = <<>>
    /\ kv' = IF importUpsertExecutor = "trx" THEN kvTrx.work ELSE kv
    /\ kvTrx' = Idle
    /\ last' = [op |-> "importData", ret |-> VoidRet]
    /\ UNCHANGED <<cfgVars, concVars, schemaVars, jsonVars, tableVars, clock, cacheVars>>

\* importData: the store rejects the next statement or the commit: rollback;
\* partial tells whether statements of the call had changed rows by then
ImportFail ==
    /\ kvTrx # Idle
    /\ kvTrx' = Idle
    /\ last' = [op |-> "importData", ret |-> ErrorRet("StoreFailure"),
                partial |-> kvTrx.work # kvTrx.before]
    /\ UNCHANGED <<cfgVars, concVars, schemaVars, jsonVars, tableVars, clock, cacheVars, kv>>

NextKv ==
    \/ \E key \in KvKeys, value \in KvValueInputs, fails \in KvFailInputs :
          SetValue(key, value, fails)
    \/ \E key \in KvKeys : GetValue(key)
    \/ GetAllKeys
    \/ ExportData
    \/ \E obj \in ObjInputs : ImportBegin(obj)
    \/ ImportEntry
    \/ ImportCommit
    \/ ImportFail

SpecKv == Init /\ [][NextKv]_vars

----------------------------------------------------------------------------
(* AbstractKeyValueRepository: two callers run setValue at the same time.    *)
(* The update and the insert of setValue are two statements on this.db with  *)
(* an await between them and no transaction around them; the key column is   *)
(* declared notNull without a unique constraint.                             *)

\* an object, the empty string, and undefined, which setValue refuses
KvRaceValueInputs == {<<"obj", 1>>, EmptyString, JsUndefined}

\* the call threw before its first statement, or is about to run its update
KvRaceBegin(c, key, value) ==
    /\ calls[c] = Idle
    /\ calls' = [calls EXCEPT ![c] =
                    IF setValueReturn(kv, key, value, "none") # VoidRet
                        THEN [pc |-> "returned", key |-> key, value |-> value, ok |-> FALSE]
                        ELSE [pc |-> "s_begin", key |-> key, value |-> value, ok |-> FALSE]]
    /\ UNCHANGED <<cfgVars, schemaVars, kvVars, jsonVars, tableVars, clock, cacheVars, last>>

\* update ... where key = key; numUpdatedRows decides whether the insert runs
KvRaceUpdate(c) ==
    /\ calls[c].pc = "s_begin"
    /\ kv' = KvUpdateSet(kv, calls[c].key, encodeJsonOrNull(calls[c].value), clock)
    /\ calls' = [calls EXCEPT
                    ![c].pc = IF KvNumUpdated(kv, calls[c].key) = 0
                                 THEN "s_missed" ELSE "returned",
                    ![c].ok = KvNumUpdated(kv, calls[c].key) # 0]
    /\ last' = IF KvNumUpdated(kv, calls[c].key) = 0 THEN last
               ELSE [op |-> "setValue", caller |-> c, ret |-> VoidRet]
    /\ UNCHANGED <<cfgVars, schemaVars, jsonVars, tableVars, clock, cacheVars, kvTrx>>

\* insert into ... values (key, value, updated_at), after an update of no row
KvRaceInsert(c) ==
    /\ calls[c].pc = "s_missed"
    /\ kv' = KvInsertInto(kv, calls[c].key, encodeJsonOrNull(calls[c].value), clock)
    /\ calls' = [calls EXCEPT ![c].pc = "returned", ![c].ok = TRUE]
    /\ last' = [op |-> "setValue", caller |-> c, ret |-> VoidRet]
    /\ UNCHANGED <<cfgVars, schemaVars, jsonVars, tableVars, clock, cacheVars, kvTrx>>

NextKvRace ==
    \/ \E c \in Callers, key \in KvKeys, value \in KvRaceValueInputs :
          KvRaceBegin(c, key, value)
    \/ \E c \in Callers : KvRaceUpdate(c)
    \/ \E c \in Callers : KvRaceInsert(c)

SpecKvRace == Init /\ [][NextKvRace]_vars

----------------------------------------------------------------------------
(* AbstractJSONTable: a type column and a JSON content column on AbstractTable *)

\* rows the JSON table may hold
MaxDocs == 1

\* An object is a function from its keys to values. A value is a number
\* (JsInt), a string, undefined, null, or a nested object <<"rec", object>>.
TypeA == <<"str", "A">>
TypeB == <<"str", "B">>
Rec(o) == <<"rec", o>>
Field(o, k) == IF k \in DOMAIN o THEN o[k] ELSE JsUndefined

\* JSON.stringify of an object: a field whose value is undefined is dropped,
\* in the object and in the objects nested in it
stringifyFields(o) ==
    [k \in {x \in DOMAIN o : o[x] # JsUndefined} |-> o[k]]
stringifyObject(o) ==
    [k \in {x \in DOMAIN o : o[x] # JsUndefined} |->
        IF o[k][1] = "rec" THEN Rec(stringifyFields(o[k][2])) ELSE o[k]]

\* encodeJson of the JSON table: postgres is handed the object and its json
\* column holds the JSON of it, sqlite is handed the JSON text
jsonTableEncodeJson(value) ==
    IF dialect = "postgres" THEN <<"jsonb", stringifyObject(value)>>
                            ELSE <<"text", stringifyObject(value)>>

\* decodeJson of the JSON table: the column as it is, or JSON.parse of the text
jsonTableDecodeJson(col) == col[2]

\* toJsonContent of the JSON table: a copy without id, priority and type
jsonTableToJsonContentKeepsType(content) ==
    [k \in DOMAIN content \ {"id", "priority"} |-> content[k]]
jsonTableToJsonContent(content) ==
    [k \in DOMAIN content \ {"id", "priority", "type"} |-> content[k]]

\* the priority column as a JS value
priorityValue(r) == IF IsNull(r.priority) THEN JsNull ELSE JsInt(Val(r.priority))

\* fromRow: {...json, id, priority, type}
fromRow(row) ==
    LET json == jsonTableDecodeJson(row.content) IN
    [k \in DOMAIN json \cup {"id", "priority", "type"} |->
        IF k = "id" THEN JsInt(row.id)
        ELSE IF k = "priority" THEN priorityValue(row)
        ELSE IF k = "type" THEN row.type
        ELSE json[k]]

ObjRet(o) == [kind |-> "object", obj |-> o]
WithContent(ret) == IF ret.kind = "row" THEN ObjRet(fromRow(ret.row)) ELSE ret

\* super.create of {type, priority, content}
NewDoc(id, priority, now, type, content) ==
    [id |-> id, priority |-> priority, deleted_at |-> Null,
     created_at |-> now, type |-> type, content |-> content]
docInsertInto(t, id, p, type, content, now) ==
    t \cup {NewDoc(id, insertedPriority(p), now, type, content)}
superCreateTable(t, id, p, type, content, now) ==
    IF createStamps(p) THEN StampPriority(docInsertInto(t, id, p, type, content, now))
                       ELSE docInsertInto(t, id, p, type, content, now)
superCreateReturn(t, id, p, type, content, now) ==
    TakeFirst(WhereId(superCreateTable(t, id, p, type, content, now), id))

\* createWithContent: !type
IsFalsy(v) == v = JsUndefined \/ v = JsNull \/ v = EmptyString
\* supportedTypes.length && !supportedTypes.includes(type)
unsupportedType(type) == supportedTypes # {} /\ type \notin supportedTypes

createWithContentError(content) ==
    IF IsFalsy(Field(content, "type")) THEN "type must be provided"
    ELSE IF unsupportedType(Field(content, "type")) THEN "Unsupported type"
    ELSE "none"
createWithContentTable(t, id, content, now) ==
    IF createWithContentError(content) # "none" THEN t
    ELSE superCreateTable(t, id, Field(content, "priority"), content.type,
                          jsonTableEncodeJson(jsonTableToJsonContent(content)), now)
createWithContentReturn(t, id, content, now) ==
    IF createWithContentError(content) # "none"
        THEN ErrorRet(createWithContentError(content))
        ELSE WithContent(superCreateReturn(t, id, Field(content, "priority"), content.type,
                             jsonTableEncodeJson(jsonTableToJsonContent(content)), now))

\* getByIdWithContent
getByIdWithContent(t, id) == WithContent(getById(t, id, FALSE))

\* {...existing, ...jsonPatch}; and a merge that descends into nested objects
spread(a, b) ==
    [k \in DOMAIN a \cup DOMAIN b |-> IF k \in DOMAIN b THEN b[k] ELSE a[k]]
spreadDeep(a, b) ==
    [k \in DOMAIN a \cup DOMAIN b |->
        IF k \notin DOMAIN b THEN a[k]
        ELSE IF k \in DOMAIN a /\ a[k][1] = "rec" /\ b[k][1] = "rec"
            THEN Rec(spread(a[k][2], b[k][2]))
            ELSE b[k]]
mergeContentDeep(existing, jsonPatch) == spreadDeep(existing, jsonPatch)
mergeContent(existing, jsonPatch) == spread(existing, jsonPatch)

\* updateWithContent: const {type, priority, ...jsonPatch} = patch
jsonPatchOf(patch) == [k \in DOMAIN patch \ {"type", "priority"} |-> patch[k]]
\* the content column of updateData, read from the row of that id if there is one
existingContent(t, id) ==
    LET current == getById(t, id, TRUE) IN
    IF current.kind = "row" THEN jsonTableDecodeJson(current.row.content)
                            ELSE [k \in {} |-> JsUndefined]
\* updateData: the columns the update sets
updateData(t, id, patch) ==
    LET typePart == IF Field(patch, "type") # JsUndefined
                        THEN [type |-> patch.type] ELSE [k \in {} |-> JsUndefined]
        priorityPart == IF Field(patch, "priority") = JsUndefined
                            THEN [k \in {} |-> JsUndefined]
                        ELSE IF patch.priority = JsNull THEN [priority |-> Null]
                        ELSE [priority |-> Some(patch.priority[2])]
        contentPart == IF DOMAIN jsonPatchOf(patch) # {}
                           THEN [content |-> jsonTableEncodeJson(
                                    mergeContent(existingContent(t, id), jsonPatchOf(patch)))]
                           ELSE [k \in {} |-> JsUndefined]
    IN spread(spread(typePart, priorityPart), contentPart)

\* a patch of updateWithContent sets at least one column
setsSomething(patch) ==
    \/ Field(patch, "type") # JsUndefined
    \/ Field(patch, "priority") # JsUndefined
    \/ DOMAIN jsonPatchOf(patch) # {}

\* the type column is notNull: the store refuses an update that sets it to null
updateWithContentError(id, patch) ==
    IF Field(patch, "type") # JsUndefined /\ unsupportedType(patch.type)
        THEN "Unsupported type"
    ELSE IF ~ensureValidId(id) THEN "InvalidArgument"
    ELSE IF Field(patch, "type") = JsNull THEN "NotNullViolation"
    ELSE "none"
updateWithContentTable(t, id, patch) ==
    IF updateWithContentError(id, patch) # "none" THEN t
    ELSE UpdateSet(t, id[2], updateData(t, id, patch))
updateWithContentReturn(t, id, patch) ==
    IF updateWithContentError(id, patch) # "none"
        THEN ErrorRet(updateWithContentError(id, patch))
        ELSE WithContent(TakeFirst(WhereId(updateWithContentTable(t, id, patch), id[2])))

\* the objects handed to createWithContent
DocInputs ==
    {[type |-> TypeA, title |-> JsInt(1), variables |-> Rec([a |-> JsInt(1)])],
     [type |-> TypeA, title |-> JsUndefined,
      variables |-> Rec([a |-> JsInt(1), b |-> JsUndefined])],
     [type |-> TypeA, id |-> JsInt(9), priority |-> JsInt(2), title |-> JsInt(2)],
     [type |-> TypeB, title |-> JsInt(1)],
     [type |-> EmptyString, title |-> JsInt(1)],
     [title |-> JsInt(1)]}

\* the patches handed to updateWithContent
ContentPatchInputs ==
    {[title |-> JsInt(2)],
     [title |-> JsUndefined],
     [variables |-> Rec([b |-> JsInt(2)])],
     [type |-> EmptyString],
     [type |-> JsNull],
     [type |-> TypeB],
     [type |-> TypeA, priority |-> JsInt(2)]}

DocIdInputs == {JsInt(i) : i \in 0..MaxDocs}
SupportedTypesInputs == {{}, {TypeA}}

InitJson == InitTables /\ supportedTypes \in SupportedTypesInputs

CreateWithContent(content) ==
    /\ docNextId <= MaxDocs
    /\ docs' = createWithContentTable(docs, docNextId, content, clock)
    /\ docNextId' = IF createWithContentError(content) # "none" THEN docNextId
                                                               ELSE docNextId + 1
    /\ last' = [op |-> "createWithContent", arg |-> content,
                ret |-> createWithContentReturn(docs, docNextId, content, clock)]
    /\ UNCHANGED <<cfgVars, concVars, schemaVars, kvVars, tableVars, clock, cacheVars>>

GetByIdWithContent(id) ==
    /\ last' = [op |-> "getByIdWithContent", ret |-> getByIdWithContent(docs, id)]
    /\ UNCHANGED <<cfgVars, concVars, schemaVars, kvVars, jsonVars, tableVars, clock, cacheVars>>

UpdateWithContent(id, patch) ==
    /\ setsSomething(patch)
    /\ docs' = updateWithContentTable(docs, id, patch)
    /\ last' = [op |-> "updateWithContent", had |-> existingContent(docs, id),
                ret |-> updateWithContentReturn(docs, id, patch)]
    /\ UNCHANGED <<cfgVars, concVars, schemaVars, kvVars, docNextId, tableVars, clock, cacheVars>>

NextJson ==
    \/ \E content \in DocInputs : CreateWithContent(content)
    \/ \E id \in DocIdInputs : GetByIdWithContent(id)
    \/ \E id \in DocIdInputs, patch \in ContentPatchInputs : UpdateWithContent(id, patch)

SpecJson == InitJson /\ [][NextJson]_vars

----------------------------------------------------------------------------
(* AbstractJSONTable: two callers run updateWithContent at the same time.    *)
(* The call reads the row with super.getById and writes the merged content   *)
(* with super.update: two statements on this.db with an await between them   *)
(* and no transaction around them.                                           *)

\* patches of different top-level content keys, and one of the type column
RacePatchInputs ==
    {[title |-> JsInt(2)], [variables |-> Rec([b |-> JsInt(2)])], [type |-> TypeA]}

JsonRaceCreate ==
    /\ calls = NoCalls
    /\ \E content \in DocInputs : CreateWithContent(content)

\* the type of the patch is a supported one; a patch of content keys reads first
JsonRaceBegin(c, id, patch) ==
    /\ calls[c] = Idle
    /\ updateWithContentError(id, patch) = "none"
    /\ calls' = [calls EXCEPT ![c] =
                    [pc |-> IF DOMAIN jsonPatchOf(patch) # {} THEN "w_begin" ELSE "w_read",
                     id |-> id, patch |-> patch, seen |-> {}]]
    /\ UNCHANGED <<cfgVars, schemaVars, kvVars, jsonVars, tableVars, clock, cacheVars, last>>

\* const current = await super.getById(id, {includeDeleted: true})
JsonRaceRead(c) ==
    /\ calls[c].pc = "w_begin"
    /\ calls' = [calls EXCEPT ![c].seen = WhereId(docs, calls[c].id[2]),
                              ![c].pc = "w_read"]
    /\ UNCHANGED <<cfgVars, schemaVars, kvVars, jsonVars, tableVars, clock, cacheVars, last>>

\* super.update(id, updateData), the content merged into what the call read
JsonRaceUpdate(c) ==
    /\ calls[c].pc = "w_read"
    /\ docs' = UpdateSet(docs, calls[c].id[2],
                         updateData(calls[c].seen, calls[c].id, calls[c].patch))
    /\ calls' = [calls EXCEPT ![c].pc = "returned"]
    /\ last' = [op |-> "updateWithContent", caller |-> c,
                ret |-> WithContent(TakeFirst(WhereId(docs', calls[c].id[2])))]
    /\ UNCHANGED <<cfgVars, schemaVars, kvVars, docNextId, tableVars, clock, cacheVars>>

NextJsonRace ==
    \/ JsonRaceCreate
    \/ \E c \in Callers, id \in DocIdInputs, patch \in RacePatchInputs :
          JsonRaceBegin(c, id, patch)
    \/ \E c \in Callers : JsonRaceRead(c)
    \/ \E c \in Callers : JsonRaceUpdate(c)

SpecJsonRace == InitJson /\ [][NextJsonRace]_vars

----------------------------------------------------------------------------
(* AbstractTable: rows created with stamped priorities, moved by             *)
(* updatePriority, soft-deleted and restored                                 *)

\* most rows of the table whose rows are moved
MaxRankedRows == 3

RankedIdInputs == {JsInt(i) : i \in 1..MaxRankedRows}
RankedTargetInputs == {JsInt(p) : p \in 1..MaxRankedRows}

NextRanked ==
    \/ nextId <= MaxRankedRows /\ Create(JsUndefined, "a")
    \/ \E id \in RankedIdInputs, target \in RankedTargetInputs : UpdatePriority(id, target)
    \/ \E id \in RankedIdInputs : Delete(id)
    \/ \E id \in RankedIdInputs : Restore(id)

SpecRanked == Init /\ [][NextRanked]_vars

----------------------------------------------------------------------------
(* BaseHandler.handle and BaseTableDataHandler: one request run to its       *)
(* response. The handler calls the repository; what the repository throws is *)
(* a plain Error, what the handler itself throws is a ResponseError that     *)
(* carries a status.                                                         *)

\* most rows of the table behind the handler
MaxRestRows == 2

\* ErrorCode
NOT_FOUND == 404
BAD_REQUEST == 400
INTERNAL_SERVER_ERROR == 500
\* ok(data): this.response.status(200)
STATUS_OK == 200

\* Number(params['id']) of the query strings the requests carry
NumberOfParam(str) ==
    CASE str = "1" -> JsInt(1)
      [] str = "2" -> JsInt(2)
      [] str = "3" -> JsInt(3)
      [] str = "0" -> JsInt(0)
      [] str = "" -> JsInt(0)
      [] str = "-1" -> JsInt(-1)
      [] str = "1.5" -> JsFrac(1)
      [] OTHER -> JsNaN

\* what a request ends with: the handler answered by itself (ok or error), or
\* it threw; status 0 stands for an error object without a status property
Answered(status) == [how |-> "answered", status |-> status, cond |-> "none"]
Threw(status, cond) == [how |-> "threw", status |-> status, cond |-> cond]

\* a repository result seen by the handler: a throw, or the status of the
\* `if (row) ok(...) else error(NOT_FOUND)` that follows the call
OfRepository(ret) ==
    IF ret.kind = "error" THEN Threw(0, ret.err)
    ELSE IF ret.kind = "absent" THEN Answered(NOT_FOUND)
    ELSE Answered(STATUS_OK)

\* handle: catch (error) { this.error(error.status || INTERNAL_SERVER_ERROR) }
handleStatus(outcome) ==
    IF outcome.how = "answered" THEN outcome.status
    ELSE IF outcome.status # 0 THEN outcome.status
    ELSE INTERNAL_SERVER_ERROR

\* get with params.id: Number(id), the integer test, then table.getById(id)
handlerGet(t, param) ==
    LET id == NumberOfParam(param) IN
    IF ~NumberIsInteger(id) THEN Threw(BAD_REQUEST, "InvalidArgument")
    ELSE OfRepository(getById(t, id, FALSE))

\* patch: typeof body.priority === 'number' && Object.keys(body).length === 2
patchIsPriority(body) ==
    /\ "priority" \in DOMAIN body
    /\ body.priority[1] \in {"int", "frac", "nan", "infinity"}
    /\ Cardinality(DOMAIN body) = 2

\* patch: const {id, ...rest} = body, as a patch of columns
patchRest(body) ==
    [c \in DOMAIN body \ {"id"} |->
        IF c = "priority" THEN Some(body.priority[2]) ELSE body[c]]

\* patch: ensureValidId(body.id), then updatePriority or update
handlerPatch(t, body) ==
    IF ~ensureValidId(body.id) THEN Threw(0, "InvalidArgument")
    ELSE IF patchIsPriority(body)
        THEN OfRepository(updatePriorityCallReturn(t, body.id, body.priority))
    ELSE OfRepository(updateCallReturn(t, body.id, patchRest(body)))
handlerPatchTable(t, body) ==
    IF ~ensureValidId(body.id) THEN t
    ELSE IF patchIsPriority(body)
        THEN updatePriorityCallTable(t, body.id, body.priority)
    ELSE updateCallTable(t, body.id, patchRest(body))

\* delete: ensureValidId(body.id), then table.delete(body.id)
handlerDelete(t, body, now) ==
    IF ~ensureValidId(body.id) THEN Threw(0, "InvalidArgument")
    ELSE OfRepository(deleteCallReturn(t, body.id, now))
handlerDeleteTable(t, body, now) ==
    IF ~ensureValidId(body.id) THEN t ELSE deleteCallTable(t, body.id, now)

ParamInputs == {"1", "3", "0", "-1", "1.5", "abc"}
RestIdInputs == {JsInt(0), JsFrac(1), JsInt(1), JsInt(MaxRestRows + 1)}
PatchBodyInputs ==
    {[id |-> id, priority |-> target] :
        id \in RestIdInputs, target \in {JsInt(-1), JsFrac(1), JsInt(2)}}
    \cup {[id |-> id, name |-> "b"] : id \in RestIdInputs}
DeleteBodyInputs == {[id |-> id] : id \in RestIdInputs}

Response(method, outcome) ==
    [op |-> method, ret |-> outcome, status |-> handleStatus(outcome)]

\* POST: table.create(body), ok([created])
HandlePost ==
    /\ trx = Idle
    /\ nextId <= MaxRestRows
    /\ rows' = createTable(rows, nextId, JsUndefined, "a", clock)
    /\ nextId' = nextId + 1
    /\ last' = Response("POST", OfRepository(createReturn(rows, nextId, JsUndefined, "a", clock)))
    /\ UNCHANGED <<cfgVars, concVars, schemaVars, kvVars, jsonVars, clock, trx, cacheVars>>

HandleGet(param) ==
    /\ last' = Response("GET", handlerGet(rows, param))
    /\ UNCHANGED <<cfgVars, concVars, schemaVars, kvVars, jsonVars, tableVars, clock, cacheVars>>

HandlePatch(body) ==
    /\ trx = Idle
    /\ rows' = handlerPatchTable(rows, body)
    /\ last' = Response("PATCH", handlerPatch(rows, body))
    /\ UNCHANGED <<cfgVars, concVars, schemaVars, kvVars, jsonVars, nextId, clock, trx, cacheVars>>

HandleDelete(body) ==
    /\ trx = Idle
    /\ rows' = handlerDeleteTable(rows, body, clock)
    /\ last' = Response("DELETE", handlerDelete(rows, body, clock))
    /\ UNCHANGED <<cfgVars, concVars, schemaVars, kvVars, jsonVars, nextId, clock, trx, cacheVars>>

NextRest ==
    \/ HandlePost
    \/ \E param \in ParamInputs : HandleGet(param)
    \/ \E body \in PatchBodyInputs : HandlePatch(body)
    \/ \E body \in DeleteBodyInputs : HandleDelete(body)

SpecRest == InitFeatures /\ [][NextRest]_vars

----------------------------------------------------------------------------
(* ISQLApi: ensureSchema and syncColumns on the live table of the store.     *)
(* A declared column is a ColumnSpec record; a live column is what addColumn *)
(* made of it. The statements of syncColumns run one by one on this.db, with *)
(* no transaction around them.                                               *)

\* longest list of declared columns
MaxDeclared == 2

ColumnSpec(name, type, notNull, unique, defaultSql) ==
    [name |-> name, type |-> type, notNull |-> notNull, unique |-> unique,
     defaultSql |-> defaultSql]

\* SQLiteApi.toStringType / PostgresSQLApi.toStringType
toStringType(type) ==
    IF dialect = "postgres"
        THEN CASE type = "STRING" -> "varchar(255)"
               [] type = "INTEGER" -> "integer"
               [] type = "BOOLEAN" -> "boolean"
               [] type = "TIMESTAMP" -> "timestamp"
               [] type = "JSON" -> "jsonb"
               [] OTHER -> "text"
        ELSE CASE type = "INTEGER" -> "integer"
               [] type = "BOOLEAN" -> "integer"
               [] type = "TIMESTAMP" -> "timestamp"
               [] OTHER -> "text"

\* addColumn(column.name, toStringType(column.type), col => ...): the live
\* column; a column that is not declared notNull is nullable, one without
\* defaultSql has no default
addColumn(column) ==
    [name |-> column.name, sqlType |-> toStringType(column.type),
     notNull |-> column.notNull, unique |-> column.unique,
     defaultSql |-> column.defaultSql]

ColumnNames(cols) == {c.name : c \in cols}

\* ensureSchema: id, priority and deleted_at by feature, created_at
BaseColumns ==
    {[name |-> "id", sqlType |-> IF dialect = "postgres" THEN "serial" ELSE "integer",
      notNull |-> TRUE, unique |-> TRUE, defaultSql |-> ""],
     [name |-> "created_at", sqlType |-> "timestamp",
      notNull |-> TRUE, unique |-> FALSE, defaultSql |-> "CURRENT_TIMESTAMP"]}
    \cup (IF hasPriority
            THEN {[name |-> "priority", sqlType |-> "integer",
                   notNull |-> FALSE, unique |-> FALSE, defaultSql |-> ""]}
            ELSE {})
    \cup (IF softDelete
            THEN {[name |-> "deleted_at", sqlType |-> "timestamp",
                   notNull |-> FALSE, unique |-> FALSE, defaultSql |-> ""]}
            ELSE {})

\* the store refuses a statement that names one column twice
NamesTwice(columns) ==
    \E i, j \in 1..Len(columns) : i # j /\ columns[i].name = columns[j].name

\* ensureSchema: createTable(...).ifNotExists() with the base columns and
\* extraColumns(); nothing happens to a table that exists
ensureSchemaError(live, columns) ==
    IF ~live.exists /\ (NamesTwice(columns)
                          \/ \E i \in 1..Len(columns) : columns[i].name \in ColumnNames(BaseColumns))
        THEN "StoreFailure" ELSE "none"
ensureSchemaTable(live, columns) ==
    IF live.exists \/ ensureSchemaError(live, columns) # "none" THEN live
    ELSE [exists |-> TRUE,
          cols |-> BaseColumns \cup {addColumn(columns[i]) : i \in 1..Len(columns)}]

\* syncColumns that does not look at the live columns
syncColumnsToAddAll(live, columns) == columns

\* syncColumns: columns.filter(c => !existing.has(c.name))
syncColumnsToAdd(live, columns) ==
    SelectSeq(columns, LAMBDA c : c.name \notin ColumnNames(live.cols))

\* alterTable(tableName).addColumn(...) of the first n columns of toAdd, one
\* statement each; the store refuses the statement when the table does not
\* exist or has a column of that name: <<table, refused>>
RECURSIVE AddColumns(_, _, _)
AddColumns(live, toAdd, n) ==
    IF n = 0 THEN <<live, FALSE>>
    ELSE LET before == AddColumns(live, toAdd, n - 1) IN
         IF before[2] THEN before
         ELSE IF ~before[1].exists \/ toAdd[n].name \in ColumnNames(before[1].cols)
            THEN <<before[1], TRUE>>
         ELSE <<[before[1] EXCEPT !.cols = @ \cup {addColumn(toAdd[n])}], FALSE>>

\* syncColumns, where the store fails the statement number failAt for a reason
\* of its own (0: none does)
syncColumnsRun(live, columns, failAt) ==
    LET toAdd == syncColumnsToAdd(live, columns)
        sent == IF failAt \in 1..Len(toAdd) THEN failAt - 1 ELSE Len(toAdd)
    IN AddColumns(live, toAdd, sent)
syncColumnsTable(live, columns, failAt) == syncColumnsRun(live, columns, failAt)[1]
syncColumnsReturn(live, columns, failAt) ==
    LET toAdd == syncColumnsToAdd(live, columns) IN
    IF Len(toAdd) = 0 THEN BoolRet(FALSE)
    ELSE IF failAt \in 1..Len(toAdd) \/ syncColumnsRun(live, columns, failAt)[2]
        THEN ErrorRet("StoreFailure")
    ELSE BoolRet(TRUE)

\* the declared columns of the calls: two declarations of a (a plain one and
\* one with every option), b and c
ColumnInputs ==
    {ColumnSpec("a", "STRING", FALSE, FALSE, ""),
     ColumnSpec("a", "BOOLEAN", TRUE, TRUE, "0"),
     ColumnSpec("b", "JSON", TRUE, FALSE, ""),
     ColumnSpec("c", "INTEGER", FALSE, TRUE, "")}

RECURSIVE ColumnSeqs(_)
ColumnSeqs(n) ==
    IF n = 0 THEN {<<>>}
    ELSE LET shorter == ColumnSeqs(n - 1) IN
         shorter \cup
         {Append(s, c) : s \in {x \in shorter : Len(x) = n - 1}, c \in ColumnInputs}
DeclaredInputs == ColumnSeqs(MaxDeclared)

EnsureSchema(columns) ==
    /\ schema' = ensureSchemaTable(schema, columns)
    /\ last' = [op |-> "ensureSchema",
                ret |-> IF ensureSchemaError(schema, columns) # "none"
                          THEN ErrorRet(ensureSchemaError(schema, columns)) ELSE VoidRet]
    /\ UNCHANGED <<cfgVars, concVars, kvVars, jsonVars, tableVars, clock, cacheVars>>

SyncColumns(columns, failAt) ==
    /\ schema' = syncColumnsTable(schema, columns, failAt)
    /\ last' = [op |-> "syncColumns", ret |-> syncColumnsReturn(schema, columns, failAt),
                added |-> ColumnNames(syncColumnsTable(schema, columns, failAt).cols)
                            \ ColumnNames(schema.cols)]
    /\ UNCHANGED <<cfgVars, concVars, kvVars, jsonVars, tableVars, clock, cacheVars>>

NextSchema ==
    \/ \E columns \in DeclaredInputs : EnsureSchema(columns)
    \/ \E columns \in DeclaredInputs, failAt \in 0..MaxDeclared :
          SyncColumns(columns, failAt)

SpecSchema == InitFeatures /\ [][NextSchema]_vars

----------------------------------------------------------------------------
(* Claims about the base repository *)

ActiveRows(t) == {r \in t : IsNull(r.deleted_at)}

\* the active rows of t hold integer priorities that are pairwise distinct
DistinctActivePriorities(t) ==
    /\ \A r \in ActiveRows(t) : ~IsNull(r.priority)
    /\ \A a, b \in ActiveRows(t) : a.id # b.id => a.priority # b.priority

\* C1: with priority and soft delete enabled, after any sequence of create,
\* update, delete, restore, permanentDelete and updatePriority calls no two
\* active rows hold the same priority value.
C1_UniqueActivePriority ==
    (hasPriority /\ softDelete) =>
        \A a, b \in ActiveRows(rows) :
            (a.id # b.id /\ ~IsNull(a.priority)) => a.priority # b.priority

\* C2: a create call that supplies no valid positive-integer priority returns a
\* row whose priority equals its generated id, and right after the call no
\* other active row holds that priority.
C2_AutoPriorityIsIdAndUnique ==
    (last.op = "create" /\ last.auto /\ last.ret.kind = "row") =>
        /\ last.ret.row.priority = Some(last.ret.row.id)
        /\ \A r \in ActiveRows(rows) :
              r.id # last.ret.row.id => r.priority # last.ret.row.priority

\* C3: from a table whose active rows have pairwise distinct priorities, every
\* updatePriority call leaves the active rows with pairwise distinct integer
\* priorities.
C3_UpdatePriorityKeepsDistinct ==
    [][(last'.op = "updatePriority" /\ DistinctActivePriorities(rows))
          => DistinctActivePriorities(rows')]_vars

\* a is ordered before b by priority
Before(a, b) ==
    ~IsNull(a.priority) /\ ~IsNull(b.priority) /\ Val(a.priority) < Val(b.priority)

\* the order by priority of the rows of t other than id is the same in t2
OthersKeepOrder(t, t2, id) ==
    \A a, b \in t : \A a2, b2 \in t2 :
        (a.id # id /\ b.id # id /\ a2.id = a.id /\ b2.id = b.id /\ Before(a, b))
            => Before(a2, b2)

\* C4: every updatePriority(id, target) call leaves the moved row with priority
\* exactly target and keeps the order by priority of any two other rows.
C4_MovedToTargetOthersKeepOrder ==
    [][\A id \in 1..MaxRows, target \in 0..MaxPriority :
          (/\ last'.op = "updatePriority"
           /\ last'.ret = updatePriorityReturn(rows, id, target)
           /\ last'.ret.kind = "row"
           /\ last'.ret.row.id = id
           /\ rows' = updatePriorityTable(rows, id, target))
          => (/\ last'.ret.row.priority = Some(target)
              /\ OthersKeepOrder(rows, rows', id))]_vars

\* what the whole call of the open transaction makes of the table it began on
WholeCallTable(t) ==
    IF t.op = "create" THEN createTable(t.before, t.id, t.p, t.name, clock)
                       ELSE updatePriorityTable(t.before, t.id, t.target)

\* a result a reader on this.db gets from table t
ReadOf(t, l) ==
    IF l.op = "getById"
        THEN \E id \in IdInputs : l.ret = getById(t, id, l.incl)
        ELSE \E column \in OrderInputs : l.ret.rows \in list(t, l.incl, column)

\* C5: create and updatePriority are all-or-nothing: the committed table changes
\* only at the commit, to the result of the whole call; a failure at any step
\* leaves it as it was before the call; a reader during the call sees the table
\* as it was before the call, never an intermediate state.
C5_TransactionsAllOrNothing ==
    [][/\ rows' # rows =>
            (trx # Idle /\ trx.pc = "done" /\ trx' = Idle /\ rows' = WholeCallTable(trx))
       /\ (trx # Idle /\ trx' = Idle /\ last'.ret.kind = "error") => rows' = trx.before
       /\ (trx # Idle /\ last' # last /\ last'.op \in {"getById", "list"})
            => ReadOf(trx.before, last')]_vars

\* a create failed after its insert, before the priority was stamped
C5_Witness ==
    /\ last.op = "create" /\ last.ret = ErrorRet("StoreFailure") /\ last.at = "c_inserted"
    /\ trx = Idle
    /\ rows # {}

\* C6: getById and list without includeDeleted never return a row whose
\* deleted_at is non-null; with includeDeleted the same row is returned.
C6_DeletedRowsHidden ==
    /\ \A id \in IdInputs :
          LET ret == getById(rows, id, FALSE) IN
          ret.kind = "row" => IsNull(ret.row.deleted_at)
    /\ \A column \in OrderInputs : \A page \in list(rows, FALSE, column) :
          \A i \in 1..Len(page) : IsNull(page[i].deleted_at)
    /\ \A r \in rows :
          /\ getById(rows, JsInt(r.id), TRUE) = RowRet(r)
          /\ \A column \in OrderInputs : \A page \in list(rows, TRUE, column) :
                \E i \in 1..Len(page) : page[i] = r
    /\ (last.op \in {"getById", "list"} /\ ~last.incl) =>
          /\ last.ret.kind = "row" => IsNull(last.ret.row.deleted_at)
          /\ last.ret.kind = "rows" =>
                \A i \in 1..Len(last.ret.rows) : IsNull(last.ret.rows[i].deleted_at)

\* a soft-deleted row exists and a default getById just reported it absent
C6_Witness ==
    /\ last.op = "getById" /\ ~last.incl /\ last.ret = Absent
    /\ \E r \in rows : ~IsNull(r.deleted_at)
    /\ \E r \in rows : IsNull(r.deleted_at)

\* C7: for any active row r, delete(r.id), then restore(r.id), then
\* getById(r.id) with default options returns r in every column, with
\* deleted_at null again.
C7_DeleteRestoreRoundTrip ==
    softDelete =>
        \A r \in ActiveRows(rows) : \A later \in {clock, clock + ONE_HOUR} :
            LET deleted == deleteTable(rows, r.id, clock)
                restored == restoreTable(deleted, r.id)
            IN /\ getById(deleted, JsInt(r.id), FALSE) = Absent
               /\ getById(restored, JsInt(r.id), FALSE) = RowRet(r)
               /\ restoreTable(deleteTable(rows, r.id, later), r.id) = rows

\* a restore has just brought a deleted row back, and getById returns it
C7_Witness ==
    /\ last.op = "restore" /\ last.ret.kind = "row"
    /\ getById(rows, JsInt(last.ret.row.id), FALSE) = last.ret
    /\ IsNull(last.ret.row.deleted_at)
    /\ last.ret.row.created_at < clock

\* the ids of the rows created so far, and the next one, which no row has
KnownIds == {JsInt(i) : i \in 1..nextId}

\* the row of t with the given id, where it is active / where it is soft-deleted
ActiveWithId(t, id) == {r \in WhereId(t, id[2]) : IsNull(r.deleted_at)}
DeletedWithId(t, id) == {r \in WhereId(t, id[2]) : ~IsNull(r.deleted_at)}

DeleteRestoreFrame ==
    softDelete =>
        \A id \in KnownIds :
            /\ ActiveWithId(rows, id) = {} =>
                  /\ deleteCallReturn(rows, id, clock) = Absent
                  /\ deleteCallTable(rows, id, clock) = rows
            /\ \A r \in ActiveWithId(rows, id) :
                  LET stamped == [r EXCEPT !.deleted_at = Some(clock)] IN
                  /\ deleteCallReturn(rows, id, clock) = RowRet(stamped)
                  /\ deleteCallTable(rows, id, clock) = (rows \ {r}) \cup {stamped}
            /\ DeletedWithId(rows, id) = {} =>
                  /\ restoreCallReturn(rows, id) = Absent
                  /\ restoreCallTable(rows, id) = rows
            /\ \A r \in DeletedWithId(rows, id) :
                  LET cleared == [r EXCEPT !.deleted_at = Null] IN
                  /\ restoreCallReturn(rows, id) = RowRet(cleared)
                  /\ restoreCallTable(rows, id) = (rows \ {r}) \cup {cleared}

\* C21: in soft-delete mode delete(id) changes only a row that is active and
\* restore(id) only a row that is soft-deleted; delete of a deleted or missing
\* id and restore of an active or missing id return absent and leave every
\* row, the deleted_at already stamped included, as it was.
C21_DeleteRestoreChangeOnlyTheirRow == []DeleteRestoreFrame

\* every row is soft-deleted, stamped before now, and a delete of one of them
\* has just returned absent
C21_Witness ==
    /\ softDelete
    /\ last.op = "delete" /\ last.ret = Absent
    /\ Cardinality(rows) = nextId - 1 /\ Cardinality(rows) >= 2
    /\ \A r \in rows : ~IsNull(r.deleted_at) /\ Val(r.deleted_at) < clock
    /\ \A id \in KnownIds : deleteCallTable(rows, id, clock) = rows

DeleteIsPermanentWithoutSoftDelete ==
    ~softDelete =>
        /\ \A id \in KnownIds :
              /\ deleteCallReturn(rows, id, clock) = Absent
              /\ deleteCallTable(rows, id, clock) = {r \in rows : r.id # id[2]}
              /\ getById(deleteCallTable(rows, id, clock), id, TRUE) = Absent
        /\ \A id \in FeatureIdInputs \cup KnownIds :
              /\ restoreCallReturn(rows, id) = ErrorRet("FeatureDisabled")
              /\ restoreCallTable(rows, id) = rows

\* C22: without soft delete, delete(id) removes the row physically and returns
\* absent even when it removed a row, so that getById(id, {includeDeleted:
\* true}) is absent afterwards; restore(id) fails with FeatureDisabled and
\* leaves the table as it was.
C22_DeleteIsPermanentWithoutSoftDelete == []DeleteIsPermanentWithoutSoftDelete

\* a delete has just removed a row of a table without soft delete and
\* returned absent
C22_Witness ==
    /\ ~softDelete
    /\ last.op = "delete" /\ last.ret = Absent
    /\ \E r \in last.removed :
          /\ r \notin rows
          /\ getById(rows, JsInt(r.id), TRUE) = Absent
    /\ restoreCallReturn(rows, JsInt(1)) = ErrorRet("FeatureDisabled")

PermanentDeleteRemovesTheRow ==
    \A id \in KnownIds :
        /\ WhereId(rows, id[2]) = {} =>
              /\ permanentDeleteReturn(rows, id) = CountRet(0)
              /\ permanentDeleteTable(rows, id) = rows
        /\ \A r \in WhereId(rows, id[2]) :
              /\ permanentDeleteReturn(rows, id) = CountRet(1)
              /\ permanentDeleteTable(rows, id) = rows \ {r}
        /\ getById(permanentDeleteTable(rows, id), id, TRUE) = Absent

\* C23: permanentDelete(id) removes the row with that id, active or
\* soft-deleted, and returns 1; it returns 0 and changes nothing when no row
\* has the id. Afterwards getById(id, {includeDeleted: true}) is absent and no
\* other row has changed.
C23_PermanentDeleteRemovesTheRow == []PermanentDeleteRemovesTheRow

\* a permanentDelete has just removed a soft-deleted row and returned 1, and
\* other rows are still there
C23_Witness ==
    /\ last.op = "permanentDelete" /\ last.ret = CountRet(1)
    /\ \E r \in last.removed :
          /\ ~IsNull(r.deleted_at)
          /\ getById(rows, JsInt(r.id), TRUE) = Absent
    /\ \E r \in rows : ~IsNull(r.deleted_at)
    /\ \E r \in rows : IsNull(r.deleted_at)

UpdatePriorityRefusals ==
    /\ ~hasPriority =>
          \A id \in FeatureIdInputs \cup KnownIds, target \in TargetInputs :
              /\ updatePriorityCallReturn(rows, id, target) = ErrorRet("FeatureDisabled")
              /\ updatePriorityCallTable(rows, id, target) = rows
    /\ hasPriority =>
          \A id \in KnownIds, target \in TargetInputs :
              /\ ~validTarget(target) =>
                    /\ updatePriorityCallReturn(rows, id, target)
                          = ErrorRet("InvalidArgument")
                    /\ updatePriorityCallTable(rows, id, target) = rows
              /\ (validTarget(target) /\ WhereId(rows, id[2]) = {}) =>
                    /\ updatePriorityCallReturn(rows, id, target) = ErrorRet("NotFound")
                    /\ updatePriorityCallTable(rows, id, target) = rows

\* C24: updatePriority(id, target) fails with FeatureDisabled when the
\* priority feature is off; with the feature on it fails with InvalidArgument
\* when target is negative or not an integer, and with NotFound when the
\* target is valid and no row has the id. No row is changed in these cases.
C24_UpdatePriorityRefusals == []UpdatePriorityRefusals

\* an updatePriority on an id that no row has just failed with NotFound,
\* another row being in the table
C24_Witness ==
    /\ hasPriority
    /\ last.op = "updatePriority" /\ last.ret = ErrorRet("NotFound")
    /\ rows # {}
    /\ \E target \in TargetInputs :
          updatePriorityCallReturn(rows, JsInt(1), target) = ErrorRet("InvalidArgument")

\* every call with an id that is not a finite positive integer is refused and
\* leaves the table as it was: restore with restoreErr, updatePriority with
\* priorityErr, the other methods with InvalidArgument
InvalidIdCallsFail(restoreErr, priorityErr) ==
    \A id \in InvalidIdInputs :
        /\ \A incl \in BOOLEAN : getById(rows, id, incl) = ErrorRet("InvalidArgument")
        /\ \A patch \in FeaturePatchInputs :
              /\ updateCallReturn(rows, id, patch) = ErrorRet("InvalidArgument")
              /\ updateCallTable(rows, id, patch) = rows
        /\ deleteCallReturn(rows, id, clock) = ErrorRet("InvalidArgument")
        /\ deleteCallTable(rows, id, clock) = rows
        /\ permanentDeleteReturn(rows, id) = ErrorRet("InvalidArgument")
        /\ permanentDeleteTable(rows, id) = rows
        /\ restoreCallReturn(rows, id) = ErrorRet(restoreErr)
        /\ restoreCallTable(rows, id) = rows
        /\ \A target \in TargetInputs :
              /\ updatePriorityCallReturn(rows, id, target) = ErrorRet(priorityErr)
              /\ updatePriorityCallTable(rows, id, target) = rows

\* C25 as stated: getById, update, delete, restore, permanentDelete and
\* updatePriority fail with InvalidArgument whenever id is not a finite
\* positive integer, and the table is unchanged by the failed call.
C25_InvalidIdIsInvalidArgument ==
    [](rows # {} => InvalidIdCallsFail("InvalidArgument", "InvalidArgument"))

\* C25: getById, update, delete and permanentDelete fail with InvalidArgument
\* whenever id is not a finite positive integer; so does restore on a table
\* with soft delete and updatePriority on a table with the priority feature,
\* while without the feature they fail with FeatureDisabled, the feature being
\* tested before the id. The table is unchanged by the failed call.
C25_InvalidIdIsRefused ==
    []InvalidIdCallsFail(IF softDelete THEN "InvalidArgument" ELSE "FeatureDisabled",
                         IF hasPriority THEN "InvalidArgument" ELSE "FeatureDisabled")

\* a getById with an invalid id has just failed with InvalidArgument on a
\* table without soft delete that holds a row, where restore(0) fails with
\* FeatureDisabled
C25_Witness ==
    /\ ~softDelete /\ hasPriority
    /\ last.op = "getById" /\ last.ret = ErrorRet("InvalidArgument")
    /\ rows # {}
    /\ restoreCallReturn(rows, JsInt(0)) = ErrorRet("FeatureDisabled")
    /\ updatePriorityCallReturn(rows, JsFrac(1), JsInt(1)) = ErrorRet("InvalidArgument")

\* C26: a row's deleted_at changes from null to non-null only through delete
\* and from non-null to null only through restore, and its id and created_at
\* never change after insert, whatever update, updatePriority or a create of
\* another row is called with.
C26_LifecycleColumnsChangeOnlyByTheirMethods ==
    [][\A r \in rows : \A q \in rows' :
          q.id = r.id =>
              /\ q.created_at = r.created_at
              /\ (IsNull(r.deleted_at) /\ ~IsNull(q.deleted_at)) => last'.op = "delete"
              /\ (~IsNull(r.deleted_at) /\ IsNull(q.deleted_at)) => last'.op = "restore"]_vars

\* the priorities held by the active rows of t
ActivePriorities(t) == {Val(r.priority) : r \in {a \in ActiveRows(t) : ~IsNull(a.priority)}}

\* the active rows of t all hold a priority and these form the range lo..hi
ContiguousRange(t, lo, hi) ==
    /\ ActiveRows(t) # {}
    /\ \A r \in ActiveRows(t) : ~IsNull(r.priority)
    /\ ActivePriorities(t) = lo..hi

\* the priority a row that held p has after the move of a row from current
\* to target: the rows between the two positions move by one
ShiftedPriority(p, current, target) ==
    IF current < target /\ p > current /\ p <= target THEN p - 1
    ELSE IF current > target /\ p >= target /\ p < current THEN p + 1
    ELSE p

MoveKeepsTheRange ==
    \A lo, hi \in 1..nextId :
        ContiguousRange(rows, lo, hi) =>
            \A moved \in ActiveRows(rows) : \A target \in lo..hi :
                LET after == updatePriorityCallTable(rows, JsInt(moved.id), JsInt(target))
                    current == Val(moved.priority)
                IN /\ ContiguousRange(after, lo, hi)
                   /\ updatePriorityCallReturn(rows, JsInt(moved.id), JsInt(target))
                         = RowRet([moved EXCEPT !.priority = Some(target)])
                   /\ [moved EXCEPT !.priority = Some(target)] \in after
                   /\ Cardinality(after) = Cardinality(rows)
                   /\ \A r \in rows \ {moved} :
                         IF IsNull(r.priority) THEN r \in after
                         ELSE [r EXCEPT !.priority =
                                  Some(ShiftedPriority(Val(r.priority), current, target))]
                                 \in after

C38_CreateStampsOnlyTheNewRow ==
    [][(last'.op = "create" /\ last'.auto /\ nextId' = nextId + 1) =>
          \A r \in rows : r \in rows']_vars

\* C39: update and updatePriority never modify or return a soft-deleted row:
\* a call whose id is soft-deleted reports absent or NotFound and leaves the
\* table alone, and the range shift of updatePriority changes the priority of
\* active rows only.
C39_SoftDeletedRowsAreLeftAlone ==
    LET deleted == rows \ ActiveRows(rows) IN
    /\ \A r \in deleted : \A patch \in PatchInputs :
          /\ updateCallTable(rows, JsInt(r.id), patch) = rows
          /\ updateCallReturn(rows, JsInt(r.id), patch) \in {Absent, ErrorRet("NotFound")}
    /\ \A r \in deleted : \A target \in TargetInputs :
          /\ updatePriorityCallTable(rows, JsInt(r.id), target) = rows
          /\ updatePriorityCallReturn(rows, JsInt(r.id), target)
                \in {Absent, ErrorRet("NotFound")}
    /\ \A id \in IdInputs : \A target \in TargetInputs :
          deleted \subseteq updatePriorityCallTable(rows, id, target)

\* C35: for any interleaving of the statements of two concurrent
\* updatePriority transactions on the same table, the priorities of the
\* active rows are pairwise distinct once both have committed.
C35_RacingMovesKeepPrioritiesDistinct ==
    BothReturned => DistinctActivePriorities(rows)

----------------------------------------------------------------------------
(* Claims about the cache repository *)

\* a row is marked expired: true in a boolean column, 1 in an integer one
MarkedExpired(r) == r.expired = Some(IF dialect = "postgres" THEN TRUE ELSE 1)

\* a row was created within the last ttl seconds
WithinWindow(r, ttl, now) == now - r.created_at <= ttl

\* the rows a read with select and ttl should consider, as the TTL table says
ExpectedMatches(t, select, ttl, now) ==
    {r \in t :
        /\ select.key # Undef => r.key = select.key
        /\ select.type # Undef => r.type = select.type
        /\ CASE ttl = JsUndefined \/ ttl = JsInt(NOT_EXPIRED) -> ~MarkedExpired(r)
             [] ttl = JsInt(EXPIRED) -> MarkedExpired(r)
             [] ttl = JsInt(UNLIMITED) -> TRUE
             [] OTHER -> WithinWindow(r, ttl[2], now) /\ ~MarkedExpired(r)}

\* the ids of the entries of a getAll result
EntryIds(ret) == {ret.entries[i].id : i \in 1..Len(ret.entries)}

\* the contents of the newest rows of a set
NewestContents(rs) ==
    {r.content : r \in {x \in rs : \A y \in rs :
        \/ x.created_at > y.created_at
        \/ (x.created_at = y.created_at /\ x.id >= y.id)}}

ReadsConsiderTtlMatches ==
    \A select \in AllSelects : \A ttl \in AllReadTtls :
        ensureSelectNotEmpty(select) =>
            LET expected == ExpectedMatches(cache, select, ttl, clock)
                all == getAll(cache, select, ttl, clock)
                lst == getLast(cache, select, ttl, clock)
            IN /\ all.kind = "entries"
               /\ EntryIds(all) = {r.id : r \in expected}
               /\ Len(all.entries) = Cardinality(expected)
               /\ isCached(cache, select, ttl, clock) = BoolRet(expected # {})
               /\ lst.kind = "content"
               /\ IF expected = {} THEN lst.content = JsNull
                  ELSE lst.content \in {decodeJson(c) : c \in NewestContents(expected)}
               /\ ttl = JsUndefined =>
                     /\ all = getAll(cache, select, JsInt(NOT_EXPIRED), clock)
                     /\ lst = getLast(cache, select, JsInt(NOT_EXPIRED), clock)

\* C8: for any cache table and non-empty select, getAll, getLast and isCached
\* consider exactly the matching rows: ttl > 0 the not-expired rows created
\* within the last ttl seconds, NOT_EXPIRED the not-expired rows, EXPIRED the
\* expired rows, UNLIMITED all rows; an omitted ttl behaves as NOT_EXPIRED.
C8_ReadsConsiderTtlMatches == []ReadsConsiderTtlMatches

\* a getAll with NOT_EXPIRED has just returned one entry of a table where a
\* one-second ttl matches nothing, EXPIRED one other row and UNLIMITED both
C8_Witness ==
    /\ last.op = "getAll" /\ last.ret.kind = "entries" /\ Len(last.ret.entries) = 1
    /\ \E select \in SelectInputs :
          /\ last.ret = getAll(cache, select, JsInt(NOT_EXPIRED), clock)
          /\ ExpectedMatches(cache, select, JsInt(1), clock) = {}
          /\ Cardinality(ExpectedMatches(cache, select, JsInt(EXPIRED), clock)) = 1
          /\ Cardinality(ExpectedMatches(cache, select, JsInt(UNLIMITED), clock)) = 2

\* C9: no existing cache row ever has its content changed and no row's expired
\* flag ever goes from true back to false: the only changes made to an
\* existing row are expired false to true by expireEntries and removal by
\* cleanExpiredEntries.
C9_RowsAppendOnlyExpiredOneWay ==
    [][\A r \in cache :
          LET after == {x \in cache' : x.id = r.id} IN
          /\ after = {} => (last'.op = "cleanExpiredEntries" /\ MarkedExpired(r))
          /\ \A x \in after :
                /\ x.key = r.key /\ x.type = r.type
                /\ x.content = r.content /\ x.created_at = r.created_at
                /\ MarkedExpired(r) => MarkedExpired(x)
                /\ x # r => (/\ last'.op = "expireEntries"
                             /\ ~MarkedExpired(r) /\ MarkedExpired(x))]_vars

\* an expired row and a newer row of the same key saved after it
C9_Witness ==
    /\ last.op = "save" /\ last.ret = BoolRet(TRUE)
    /\ \E r, x \in cache :
          /\ r.key = x.key /\ r.id < x.id
          /\ MarkedExpired(r) /\ ~MarkedExpired(x)
          /\ r.content # x.content

\* C10: expireEntries(select, ttl) with ttl > 0 sets expired on exactly the
\* rows that match select, are not already expired and were created within
\* the last ttl seconds, returns the number of rows it changed, leaves all
\* other rows untouched, and afterwards getAll(select, NOT_EXPIRED) contains
\* no row created within that window.
C10_ExpireEntriesExactlyTheWindow ==
    \A select \in AllSelects : \A ttl \in PositiveTtls :
        ensureSelectNotEmpty(select) =>
            LET targets == ExpectedMatches(cache, select, JsInt(ttl), clock)
                after == expireEntriesTable(cache, select, ttl, clock)
                ret == expireEntries(cache, select, ttl, clock)
                live == getAll(after, select, JsInt(NOT_EXPIRED), clock)
            IN /\ ret = CountRet(Cardinality(targets))
               /\ Cardinality(cache \ after) = Cardinality(targets)
               /\ \A r \in cache \ targets : r \in after
               /\ \A r \in targets :
                     /\ r \notin after
                     /\ \E x \in after :
                           /\ x.id = r.id /\ MarkedExpired(x)
                           /\ [x EXCEPT !.expired = r.expired] = r
               /\ Cardinality(after) = Cardinality(cache)
               /\ live.kind = "entries"
               /\ \A i \in 1..Len(live.entries) :
                     clock - live.entries[i].createdAt > ttl

\* an expireEntries call has just expired one row of a key and left an older
\* row of that key alone
C10_Witness ==
    /\ last.op = "expireEntries" /\ last.ret = CountRet(1)
    /\ \E r, x \in cache :
          /\ r.key = x.key /\ r.created_at < x.created_at
          /\ ~MarkedExpired(r) /\ MarkedExpired(x)

\* C11: cleanExpiredEntries(select) deletes exactly the rows that match select
\* and whose expired flag is true, returns their count, and deletes or changes
\* no other row.
C11_CleanDeletesExactlyExpiredMatches ==
    \A select \in AllSelects :
        ensureSelectNotEmpty(select) =>
            LET targets == ExpectedMatches(cache, select, JsInt(EXPIRED), clock)
                after == cleanExpiredEntriesTable(cache, select)
            IN /\ after = cache \ targets
               /\ cleanExpiredEntries(cache, select) = CountRet(Cardinality(targets))
               /\ \A r \in cache :
                     (~MarkedExpired(r) \/ r \notin applyFilters(cache, select))
                         => r \in after

\* a cleanExpiredEntries call has just deleted one row and left an expired row
\* of another key in the table
C11_Witness ==
    /\ last.op = "cleanExpiredEntries" /\ last.ret = CountRet(1)
    /\ \E r \in cache : MarkedExpired(r)

\* C12: save never throws on a write problem: it returns false and inserts no
\* row when content is null or undefined; when the insertion fails it retries
\* exactly once and, if the retry also fails, returns false with no row
\* inserted; it returns true only if a row was inserted.
C12_SaveNeverThrowsRetriesOnce ==
    \A record \in RecordInputs : \A content \in ContentInputs(cacheNextId) :
        \A firstFails, retryFails \in BOOLEAN :
            LET ret == saveReturn(content, firstFails, retryFails)
                attempts == saveAttempts(content, firstFails, retryFails)
                after == saveResultTable(cache, cacheNextId, record, content,
                                         firstFails, retryFails, clock)
            IN /\ ret.kind = "bool"
               /\ (content = JsNull \/ content = JsUndefined) =>
                     (ret = BoolRet(FALSE) /\ after = cache /\ attempts = 0)
               /\ (content # JsNull /\ content # JsUndefined) =>
                     /\ attempts = (IF firstFails THEN 2 ELSE 1)
                     /\ (firstFails /\ retryFails) =>
                           (ret = BoolRet(FALSE) /\ after = cache)
                     /\ ~(firstFails /\ retryFails) => ret = BoolRet(TRUE)
               /\ ret = BoolRet(TRUE) =>
                     /\ cache \subseteq after
                     /\ Cardinality(after \ cache) = 1
                     /\ \A r \in after \ cache :
                           /\ r.key = record.key /\ r.type = record.type
                           /\ r.id = cacheNextId /\ ~MarkedExpired(r)
               /\ ret = BoolRet(FALSE) => after = cache

\* a save whose insert and retry were both rejected has just returned false,
\* after an earlier save went through on its retry or first attempt
C12_Witness ==
    /\ last.op = "save" /\ last.ret = BoolRet(FALSE) /\ last.attempts = 2
    /\ cache # {}

\* entry a is listed before entry b when it is newer, or as old with a higher id
Newer(a, b) ==
    \/ a.createdAt > b.createdAt
    \/ (a.createdAt = b.createdAt /\ a.id > b.id)

GetLastIsNewestFirstOfGetAll ==
    \A select \in AllSelects : \A ttl \in AllReadTtls :
        ensureSelectNotEmpty(select) =>
            LET expected == ExpectedMatches(cache, select, ttl, clock)
                all == getAll(cache, select, ttl, clock).entries
                lst == getLast(cache, select, ttl, clock)
            IN /\ \A i, j \in 1..Len(all) : i < j => Newer(all[i], all[j])
               /\ expected = {} => (lst = ContentRet(JsNull) /\ all = <<>>)
               /\ expected # {} =>
                     /\ lst = ContentRet(all[1].content)
                     /\ \E r \in expected :
                           /\ \A x \in expected :
                                 \/ x = r
                                 \/ r.created_at > x.created_at
                                 \/ (r.created_at = x.created_at /\ r.id > x.id)
                           /\ lst = ContentRet(decodeJson(r.content))

\* C13: getLast(select, ttl) returns the decoded content of the matching row
\* with the highest created_at, ties broken by the highest id, and null when
\* no row matches; it equals the content of the first element of
\* getAll(select, ttl), which lists the matches newest first.
C13_GetLastIsNewestFirstOfGetAll == []GetLastIsNewestFirstOfGetAll

\* a getLast has just returned the content of the later of two rows saved in
\* the same second
C13_Witness ==
    /\ last.op = "getLast" /\ last.ret.kind = "content"
    /\ \E r1, r2 \in cache :
          /\ r1.id < r2.id /\ r1.created_at = r2.created_at /\ r1.key = r2.key
          /\ ~MarkedExpired(r1) /\ ~MarkedExpired(r2)
          /\ last.ret = ContentRet(decodeJson(r2.content))

\* the ttls expireEntries refuses
NonPositiveTtls == {ttl \in AllTtls : ttl <= 0}
EmptySelects == {select \in AllSelects : \A k \in DOMAIN select : select[k] = Undef}
InvalidArgument == ErrorRet("InvalidArgument")

\* C27: expireEntries called with ttl <= 0 (including the sentinels UNLIMITED,
\* NOT_EXPIRED and EXPIRED) always fails with InvalidArgument, whatever select
\* is, and marks no row expired.
C27_ExpireEntriesRefusesNonPositiveTtl ==
    [](\A select \in AllSelects, ttl \in NonPositiveTtls :
          /\ expireEntries(cache, select, ttl, clock) = InvalidArgument
          /\ expireEntriesResultTable(cache, select, ttl, clock) = cache)

\* expireEntries has just refused a ttl <= 0 on a table with a row that is not
\* marked expired
C27_Witness ==
    /\ last.op = "expireEntries" /\ last.ttl <= 0
    /\ last.ret = InvalidArgument
    /\ \E r \in cache : ~MarkedExpired(r)

\* C28: getLast, getAll, isCached, expireEntries and cleanExpiredEntries called
\* with a select that has no field with a non-undefined value fail with
\* InvalidArgument and read, update or delete nothing.
C28_EmptySelectIsRefused ==
    [](\A select \in EmptySelects :
          /\ \A ttl \in AllReadTtls :
                /\ getLast(cache, select, ttl, clock) = InvalidArgument
                /\ getAll(cache, select, ttl, clock) = InvalidArgument
                /\ isCached(cache, select, ttl, clock) = InvalidArgument
          /\ \A ttl \in AllTtls :
                /\ expireEntries(cache, select, ttl, clock) = InvalidArgument
                /\ expireEntriesResultTable(cache, select, ttl, clock) = cache
          /\ cleanExpiredEntries(cache, select) = InvalidArgument
          /\ cleanExpiredEntriesTable(cache, select) = cache)

\* cleanExpiredEntries has just refused a select on a table that holds a row
\* marked expired
C28_Witness ==
    /\ last.op = "cleanExpiredEntries" /\ last.ret = InvalidArgument
    /\ \E r \in cache : MarkedExpired(r)

\* C29: for every cache table state, select and ttl, isCached(select, ttl) is
\* true exactly when getAll(select, ttl) is non-empty (equivalently when
\* getLast(select, ttl) is not null).
C29_IsCachedIffGetAllNonEmpty ==
    [](\A select \in AllSelects, ttl \in AllReadTtls :
          LET cached == isCached(cache, select, ttl, clock)
              all == getAll(cache, select, ttl, clock)
              lst == getLast(cache, select, ttl, clock)
          IN IF select \in EmptySelects
                THEN cached.kind = "error" /\ all.kind = "error" /\ lst.kind = "error"
                ELSE /\ cached.kind = "bool" /\ all.kind = "entries" /\ lst.kind = "content"
                     /\ cached.value <=> all.entries # <<>>
                     /\ cached.value <=> lst.content # JsNull)

\* isCached has just answered false on a table that holds a row of the
\* select's key, and a read of another ttl finds that row
C29_Witness ==
    /\ last.op = "isCached" /\ last.ret = BoolRet(FALSE)
    /\ \E select \in AllSelects \ EmptySelects, ttl, other \in AllReadTtls :
          /\ applyFilters(cache, select) # {}
          /\ isCached(cache, select, ttl, clock) = BoolRet(FALSE)
          /\ getAll(cache, select, ttl, clock) = EntriesRet(<<>>)
          /\ isCached(cache, select, other, clock) = BoolRet(TRUE)

\* the selects that name the key or the type of a record, or both
SelectsOf(record) ==
    {select \in AllSelects \ EmptySelects :
        /\ select.key \in {Undef, record.key}
        /\ select.type \in {Undef, record.type}}

SaveAfterExpiryIsTheLast ==
    \A record \in RecordInputs :
        LET content == <<"obj", cacheNextId>>
            new == savedRow(cacheNextId, record, content, clock)
            after == saveResultTable(cache, cacheNextId, record, content, FALSE, FALSE, clock)
        IN /\ saveReturn(content, FALSE, FALSE) = BoolRet(TRUE)
           /\ \A select \in SelectsOf(record) :
                 LET stored == EntryIds(getAll(after, select, JsInt(UNLIMITED), clock))
                     expired == EntryIds(getAll(after, select, JsInt(EXPIRED), clock))
                     fresh == EntryIds(getAll(after, select, JsInt(NOT_EXPIRED), clock))
                 IN /\ getLast(after, select, JsUndefined, clock)
                          = ContentRet(decodeJson(new.content))
                    /\ getLast(after, select, JsInt(NOT_EXPIRED), clock)
                          = ContentRet(decodeJson(new.content))
                    /\ \A r \in applyFilters(cache, select) :
                          MarkedExpired(r) =>
                              /\ r \in after
                              /\ r.content # new.content
                              /\ r.id \in stored
                              /\ r.id \in expired
                              /\ r.id \notin fresh

\* C34: after expireEntries has expired the entries of a key, a successful
\* save for the key makes getLast(select, NOT_EXPIRED) return the content just
\* saved; the earlier rows stay expired and stored, returned under UNLIMITED
\* and EXPIRED, until cleanExpiredEntries removes them.
C34_SaveAfterExpiryIsTheLast ==
    /\ []SaveAfterExpiryIsTheLast
    /\ [][cache' # cache =>
             \A r \in cache \ cache' :
                 MarkedExpired(r) =>
                     last'.op = "cleanExpiredEntries" /\ last'.ret.kind = "count"]_vars

\* a save has just succeeded for a key whose earlier row expireEntries had
\* expired: getLast returns the new content, the old row is still stored
C34_Witness ==
    /\ last.op = "save" /\ last.ret = BoolRet(TRUE)
    /\ \E old, new \in cache :
          /\ old.key = new.key /\ old.id < new.id
          /\ MarkedExpired(old) /\ ~MarkedExpired(new)
          /\ new.id = cacheNextId - 1
          /\ getLast(cache, [key |-> new.key, type |-> Undef], JsInt(NOT_EXPIRED), clock)
                = ContentRet(decodeJson(new.content))
          /\ old.id \in EntryIds(getAll(cache, [key |-> new.key, type |-> Undef],
                                        JsInt(EXPIRED), clock))

\* C40: each save call adds at most one row to the cache table, also when the
\* first insert reported an error and the retry ran; a call that returned
\* false added none
C40_SaveAddsAtMostOneRow ==
    [][last'.op = "save" /\ (cache' # cache \/ last' # last) =>
          /\ cache \subseteq cache'
          /\ Cardinality(cache' \ cache) <= 1
          /\ (last'.attempts = 2 /\ last'.ret = BoolRet(TRUE)) =>
                Cardinality(cache' \ cache) = 1
          /\ last'.ret = BoolRet(FALSE) => cache' = cache]_vars

\* a save whose first insert was rejected went through on its retry and the
\* table holds the one row it added next to the row of an earlier save
C40_Witness ==
    /\ last.op = "save" /\ last.ret = BoolRet(TRUE) /\ last.attempts = 2
    /\ Cardinality(cache) = 2 /\ cacheNextId = 3
    /\ \E r \in cache : r.id = cacheNextId - 1

----------------------------------------------------------------------------
(* Claims about the key-value repository *)

KeysOf(t) == {r.key : r \in t}
RowsOfKey(t, key) == {r \in t : r.key = key}
OneRowPerKey(t) == \A k \in KvKeys : Cardinality(RowsOfKey(t, k)) <= 1

\* the keys of obj whose value is not undefined
WrittenKeys(obj) == {obj[i].key : i \in {j \in 1..Len(obj) : obj[j].value # JsUndefined}}

\* setValue(key, value) on a table with one row per key: the row of the key is
\* updated in place when it exists and inserted when it does not
SetValueKeepsOneRowPerKey(t, key, value, fails) ==
    LET after == setValueTable(t, key, value, fails, clock)
        ok == setValueReturn(t, key, value, fails) = VoidRet
    IN /\ OneRowPerKey(after)
       /\ KeysOf(after) = KeysOf(t) \cup (IF ok THEN {key} ELSE {})
       /\ \A r \in t : r.key # key => r \in after
       /\ ok => Cardinality(RowsOfKey(after, key)) = 1
       /\ (ok /\ key \in KeysOf(t)) =>
             /\ Cardinality(after) = Cardinality(t)
             /\ {r.n : r \in RowsOfKey(after, key)} = {r.n : r \in RowsOfKey(t, key)}
       /\ (ok /\ key \notin KeysOf(t)) => Cardinality(after) = Cardinality(t) + 1

\* C14: after any sequence of sequentially executed setValue and importData
\* calls, the key-value table holds exactly one row for each key that was ever
\* written (updated in place when it exists, inserted when it does not), never
\* two rows with the same key.
C14_OneRowPerWrittenKey ==
    /\ [](/\ OneRowPerKey(kv)
          /\ kvTrx # Idle => OneRowPerKey(kvTrx.work)
          /\ \A key \in KvKeys, value \in KvValueInputs, fails \in KvFailInputs :
                SetValueKeepsOneRowPerKey(kv, key, value, fails))
    /\ [][/\ KeysOf(kv) \subseteq KeysOf(kv')
          /\ (kvTrx # Idle /\ kvTrx' = Idle /\ last'.ret = VoidRet) =>
                KeysOf(kv') = KeysOf(kvTrx.before) \cup WrittenKeys(kvTrx.obj)]_vars

\* importData has just updated in place the row of a key that was there, and
\* inserted the row of a key that was not
C14_Witness ==
    /\ kvTrx # Idle /\ kvTrx.todo = <<>>
    /\ Cardinality(kvTrx.before) = 1 /\ Cardinality(kvTrx.work) = 2
    /\ \E r \in kvTrx.before, x \in kvTrx.work :
          r.n = x.n /\ r.key = x.key /\ r.value # x.value

\* C15: setValue(key, undefined) throws, setValue with a value JSON cannot
\* hold throws before any write, and importData skips undefined-valued entries;
\* in all three cases the value previously stored under that key is unchanged.
C15_RejectedValuesKeepOldData ==
    /\ [](\A key \in KvKeys, fails \in KvFailInputs : \A value \in {JsUndefined, Cyclic} :
             /\ setValueReturn(kv, key, value, fails) = ErrorRet("TypeError")
             /\ setValueTable(kv, key, value, fails, clock) = kv
             /\ getValue(setValueTable(kv, key, value, fails, clock), key)
                   = getValue(kv, key))
    /\ [][/\ (kvTrx # Idle /\ kvTrx' # Idle /\ kvTrx.todo # <<>>) =>
                (Head(kvTrx.todo).value = JsUndefined =>
                    (kvTrx'.work = kvTrx.work /\ kv' = kv))
          /\ (kvTrx # Idle /\ kvTrx' = Idle) =>
                \A k \in KvKeys \ WrittenKeys(kvTrx.obj) :
                    /\ RowsOfKey(kv', k) = RowsOfKey(kvTrx.before, k)
                    /\ getValue(kv', k) = getValue(kvTrx.before, k)]_vars

\* importData has gone through an object whose first entry, for a stored key,
\* was undefined: the row of that key is as it was, the other entry is written
C15_Witness ==
    /\ kvTrx # Idle /\ kvTrx.todo = <<>> /\ Len(kvTrx.obj) = 2
    /\ kvTrx.obj[1].value = JsUndefined
    /\ kvTrx.work # kvTrx.before
    /\ \E r \in kvTrx.before :
          r.key = kvTrx.obj[1].key /\ ~IsNull(r.value) /\ r \in kvTrx.work

\* C16: importData(obj) is all-or-nothing: if processing any entry fails (a
\* value JSON cannot hold, or a store error on the update or the insert), none
\* of the entries of obj, including those processed earlier in the same call,
\* is visible in the table afterwards; on success every non-undefined entry is
\* stored.
C16_ImportDataAllOrNothing ==
    [][/\ (kvTrx # Idle /\ kvTrx' # Idle) => (kv' = kvTrx.before /\ kv = kvTrx.before)
       /\ (kvTrx # Idle /\ kvTrx' = Idle /\ last'.ret.kind = "error") =>
             (kv' = kvTrx.before /\ kv = kvTrx.before)
       /\ (kvTrx # Idle /\ kvTrx' = Idle /\ last'.ret = VoidRet) =>
             /\ kvTrx.todo = <<>>
             /\ \A i \in 1..Len(kvTrx.obj) :
                   kvTrx.obj[i].value # JsUndefined =>
                       \E r \in kv' :
                           /\ r.key = kvTrx.obj[i].key
                           /\ r.value = encodeJsonOrNull(kvTrx.obj[i].value)
             /\ \A r \in kvTrx.before :
                   r.key \notin WrittenKeys(kvTrx.obj) => r \in kv']_vars

\* an importData has just failed after an earlier entry of the same call had
\* changed a row, and the table holds a row
C16_Witness ==
    /\ last.op = "importData" /\ last.ret.kind = "error" /\ last.partial
    /\ kvTrx = Idle
    /\ kv # {}

\* what getValue gives back of a written value: null for null and '', else
\* the value itself / its JSON form
ReadBackLiteral(value) == IF value = JsNull \/ value = EmptyString THEN JsNull ELSE value
ReadBackJson(value) ==
    IF value = JsNull \/ value = EmptyString THEN JsNull
    ELSE IF value[1] = "sparse" THEN <<"obj", value[2]>> ELSE value

\* getValue of every key after a setValue
ReadsAfterSetValue(ReadBack(_)) ==
    \A key \in KvKeys, value \in KvValueInputs, fails \in KvFailInputs :
        LET after == setValueTable(kv, key, value, fails, clock)
            ok == setValueReturn(kv, key, value, fails) = VoidRet
        IN /\ ok => getValue(after, key) = {ValueRet(ReadBack(value))}
           /\ \A k \in KvKeys : (~ok \/ k # key) => getValue(after, k) = getValue(kv, k)

\* getValue of every key after a step of importData; no step removes a key
ReadsAfterStep(ReadBack(_)) ==
    /\ KeysOf(kv) \subseteq KeysOf(kv')
    /\ (kvTrx # Idle /\ kvTrx' = Idle /\ last'.ret = VoidRet) =>
          /\ \A i \in 1..Len(kvTrx.obj) :
                kvTrx.obj[i].value # JsUndefined =>
                    getValue(kv', kvTrx.obj[i].key) = {ValueRet(ReadBack(kvTrx.obj[i].value))}
          /\ \A k \in KvKeys \ WrittenKeys(kvTrx.obj) : getValue(kv', k) = getValue(kv, k)
    /\ (kvTrx' # Idle \/ (kvTrx # Idle /\ last'.ret # VoidRet)) =>
          \A k \in KvKeys : getValue(kv', k) = getValue(kv, k)

\* a key without a record reads as undefined; a key with a record, whatever it
\* holds, is in getAllKeys and in exportData, with the value getValue returns
KeyRecordIsListed ==
    \A k \in KvKeys :
        /\ k \notin KeysOf(kv) <=> getValue(kv, k) = {UndefinedRet}
        /\ k \in KeysOf(kv) =>
              /\ getAllKeys(kv).count[k] = 1
              /\ \A e \in exportData(kv) :
                    k \in DOMAIN e.object /\ ValueRet(e.object[k]) \in getValue(kv, k)

\* C17 as stated: getValue(key) returns undefined if the key has never been
\* set, null if the most recent successful write to the key was null or the
\* empty string (the key record is kept: the key still appears in getAllKeys and
\* exportData), and otherwise the value of the most recent successful setValue
\* or importData for that key.
C17_GetValueReturnsWrittenValue ==
    /\ [](KeyRecordIsListed /\ ReadsAfterSetValue(ReadBackLiteral))
    /\ [][ReadsAfterStep(ReadBackLiteral)]_vars

\* C17, amended: ... and otherwise the JSON form of the value of the most recent
\* successful setValue or importData for that key (what JSON.parse of
\* JSON.stringify gives: fields whose value is undefined are dropped).
C17_GetValueReturnsJsonFormOfWrittenValue ==
    /\ [](KeyRecordIsListed /\ ReadsAfterSetValue(ReadBackJson))
    /\ [][ReadsAfterStep(ReadBackJson)]_vars

\* a getValue has just returned null for a key whose record is kept, next to a
\* key that holds a value
C17_Witness ==
    /\ last.op = "getValue" /\ last.ret = ValueRet(JsNull)
    /\ \E r, x \in kv : IsNull(r.value) /\ ~IsNull(x.value)
    /\ \A k \in KvKeys : getAllKeys(kv).count[k] = 1

\* C30: a validation error is raised before any statement is sent to the
\* store: an importData that fails on a value that cannot be serialized has
\* sent no statement of its transaction before it fails.
C30_ValidationFailsBeforeAnyStatement ==
    (last.op = "importData" /\ last.ret = ErrorRet("TypeError")) => ~last.partial

\* C36: for any interleaving of two concurrent setValue calls on the same key
\* that has no row yet, the table ends with exactly one row for that key,
\* holding one of the two values.
C36_RacingSetValueLeavesOneRow ==
    (/\ BothReturned
     /\ calls[1].key = calls[2].key
     /\ calls[1].ok /\ calls[2].ok) =>
        \E r \in kv :
            /\ RowsOfKey(kv, calls[1].key) = {r}
            /\ r.value \in {encodeJsonOrNull(calls[c].value) : c \in Callers}

----------------------------------------------------------------------------
(* Claims about the JSON content repository *)

ColumnKeys == {"id", "priority", "type"}
DefinedKeys(o) == {k \in DOMAIN o : o[k] # JsUndefined}
\* what JSON.parse(JSON.stringify(v)) gives of a field value
AsJson(v) == IF v[1] = "rec" THEN Rec([k \in DefinedKeys(v[2]) |-> v[2][k]]) ELSE v
TypeIsSupported(type) == supportedTypes = {} \/ type \in supportedTypes

\* C18: after any sequence of createWithContent and updateWithContent calls,
\* every stored row has a non-empty type and, when the whitelist is non-empty,
\* a type contained in the whitelist; a createWithContent call with a missing
\* or falsy type, and a createWithContent or updateWithContent call with a type
\* outside the whitelist, fails and inserts or changes no row.
C18_StoredTypeIsNonEmptyAndSupported ==
    /\ \A r \in docs : ~IsFalsy(r.type) /\ TypeIsSupported(r.type)
    /\ \A c \in DocInputs :
          (IsFalsy(Field(c, "type")) \/ ~TypeIsSupported(Field(c, "type"))) =>
              /\ createWithContentReturn(docs, docNextId, c, clock).kind = "error"
              /\ createWithContentTable(docs, docNextId, c, clock) = docs
    /\ \A id \in DocIdInputs, patch \in ContentPatchInputs :
          (Field(patch, "type") # JsUndefined /\ ~TypeIsSupported(Field(patch, "type"))) =>
              /\ updateWithContentReturn(docs, id, patch).kind = "error"
              /\ updateWithContentTable(docs, id, patch) = docs

\* C19: for every content object c with a supported type,
\* getByIdWithContent(id) after createWithContent(c) returns an object equal to
\* c with undefined-valued fields dropped (JSON.stringify semantics) and with id
\* and priority populated from the row; id, priority and type are not stored
\* inside the JSON blob.
C19_CreateThenGetReturnsContent ==
    \A c \in DocInputs :
        (~IsFalsy(Field(c, "type")) /\ TypeIsSupported(Field(c, "type"))) =>
            LET after == createWithContentTable(docs, docNextId, c, clock)
                created == createWithContentReturn(docs, docNextId, c, clock)
                got == getByIdWithContent(after, JsInt(docNextId))
                contentKeys == DefinedKeys(c) \ ColumnKeys
            IN /\ got.kind = "object"
               /\ created = got
               /\ DOMAIN got.obj = contentKeys \cup ColumnKeys
               /\ \A k \in contentKeys : got.obj[k] = AsJson(c[k])
               /\ got.obj.type = c.type
               /\ \E row \in after :
                     /\ row \notin docs
                     /\ row.id = docNextId
                     /\ got.obj.id = JsInt(row.id)
                     /\ got.obj.priority =
                            (IF IsNull(row.priority) THEN JsNull ELSE JsInt(Val(row.priority)))
                     /\ DOMAIN jsonTableDecodeJson(row.content) \cap ColumnKeys = {}

\* a content object with an undefined-valued field, an id and no priority of
\* its own has been created, and reading its row gives what create returned
C19_Witness ==
    /\ last.op = "createWithContent"
    /\ last.ret.kind = "object"
    /\ DefinedKeys(last.arg) # DOMAIN last.arg
    /\ "title" \notin DOMAIN last.ret.obj
    /\ "b" \notin DOMAIN last.ret.obj.variables[2]
    /\ getByIdWithContent(docs, last.ret.obj.id) = last.ret

\* C20: updateWithContent(id, patch) replaces, in the stored content, exactly
\* the top-level keys present in patch (a nested object in the patch replaces
\* the whole stored top-level value, it is not deep-merged) and keeps every
\* other stored top-level key unchanged; it returns absent and creates no row
\* when no row has that id. (The keys type and priority of a patch are columns,
\* not content; a key whose new value is undefined has no JSON form and is
\* replaced by nothing; id is a valid id and the call does not fail.)
C20_UpdateReplacesTopLevelKeys ==
    \A id \in DocIdInputs, patch \in ContentPatchInputs :
        LET after == updateWithContentTable(docs, id, patch)
            ret == updateWithContentReturn(docs, id, patch)
            keys == DOMAIN patch \ {"type", "priority"}
        IN (ensureValidId(id) /\ ret.kind # "error") =>
              /\ {r.id : r \in after} = {r.id : r \in docs}
              /\ Cardinality(after) = Cardinality(docs)
              /\ \A r \in docs : r.id # id[2] => r \in after
              /\ WhereId(docs, id[2]) = {} => (ret = Absent /\ after = docs)
              /\ \A r \in WhereId(docs, id[2]) :
                    /\ ret.kind = "object"
                    /\ \E r2 \in WhereId(after, id[2]) :
                          LET b == jsonTableDecodeJson(r.content)
                              b2 == jsonTableDecodeJson(r2.content)
                          IN /\ \A k \in keys :
                                   IF patch[k] = JsUndefined
                                       THEN k \notin DOMAIN b2
                                       ELSE k \in DOMAIN b2 /\ b2[k] = AsJson(patch[k])
                             /\ \A k \in (DOMAIN b \cup DOMAIN b2) \ keys :
                                   k \in DOMAIN b /\ k \in DOMAIN b2 /\ b2[k] = b[k]
                             /\ \A k \in DOMAIN b2 \ ColumnKeys : ret.obj[k] = b2[k]

\* a patch with a nested object has replaced the stored nested object whole,
\* and the other stored key is still there
C20_Witness ==
    /\ last.op = "updateWithContent"
    /\ last.ret.kind = "object"
    /\ "variables" \in DOMAIN last.had /\ last.had.variables = Rec([a |-> JsInt(1)])
    /\ "title" \in DOMAIN last.had
    /\ last.ret.obj.variables = Rec([b |-> JsInt(2)])
    /\ last.ret.obj.title = last.had.title


\* C37: for any interleaving of two concurrent updateWithContent calls on the
\* same row that patch different top-level keys, the stored content
\* afterwards contains both patches.
C37_RacingPatchesAreBothStored ==
    (/\ BothReturned
     /\ calls[1].id = calls[2].id
     /\ DOMAIN jsonPatchOf(calls[1].patch) # {}
     /\ DOMAIN jsonPatchOf(calls[2].patch) # {}
     /\ DOMAIN jsonPatchOf(calls[1].patch) \cap DOMAIN jsonPatchOf(calls[2].patch) = {}) =>
        \A r \in WhereId(docs, calls[1].id[2]) : \A c \in Callers :
            \A k \in DOMAIN jsonPatchOf(calls[c].patch) :
                Field(jsonTableDecodeJson(r.content), k) = calls[c].patch[k]

----------------------------------------------------------------------------
(* Claims about the schema operations *)

\* the live columns syncColumns should add: one for each declared column whose
\* name the live table does not have
MissingColumns(live, columns) ==
    {addColumn(columns[i]) :
        i \in {k \in 1..Len(columns) : columns[k].name \notin ColumnNames(live.cols)}}

SyncColumnsAddsTheMissing ==
    schema.exists =>
        \A columns \in DeclaredInputs :
            /\ \A failAt \in 0..MaxDeclared :
                  LET after == syncColumnsTable(schema, columns, failAt) IN
                  /\ schema.cols \subseteq after.cols
                  /\ after.cols \ schema.cols \subseteq MissingColumns(schema, columns)
                  /\ after.exists
            /\ ~NamesTwice(columns) =>
                  LET after == syncColumnsTable(schema, columns, 0) IN
                  /\ after.cols = schema.cols \cup MissingColumns(schema, columns)
                  /\ syncColumnsReturn(schema, columns, 0)
                        = BoolRet(MissingColumns(schema, columns) # {})
                  /\ syncColumnsTable(after, columns, 0) = after
                  /\ syncColumnsReturn(after, columns, 0) = BoolRet(FALSE)

\* C31: syncColumns adds exactly the declared columns that the live table
\* does not have and never drops, renames or alters a live column; a second
\* call with the same declaration adds nothing and returns false.
C31_SyncColumnsAddsTheMissing == []SyncColumnsAddsTheMissing

\* a syncColumns has just added a column to a table that already had a
\* declared column a; a call that declares a differently leaves it alone
C31_Witness ==
    /\ schema.exists
    /\ last.op = "syncColumns" /\ last.ret = BoolRet(TRUE)
    /\ last.added # {} /\ "a" \notin last.added
    /\ \E c \in schema.cols : c.name = "a" /\ ~c.notNull
    /\ \E columns \in DeclaredInputs :
          /\ \E i \in 1..Len(columns) : columns[i].name = "a" /\ columns[i].notNull
          /\ syncColumnsReturn(schema, columns, 0) = BoolRet(FALSE)


----------------------------------------------------------------------------
(* Claims about the REST handler *)

\* C32: the handler answers a request whose repository call raised a
\* not-found condition with status 404, an invalid-argument condition with
\* status 400, and any other failure with status 500.
C32_StatusFollowsTheCondition ==
    (last.op \in {"GET", "POST", "PATCH", "DELETE"} /\ last.ret.how = "threw") =>
        last.status = (CASE last.ret.cond = "NotFound" -> NOT_FOUND
                         [] last.ret.cond = "InvalidArgument" -> BAD_REQUEST
                         [] OTHER -> INTERNAL_SERVER_ERROR)

====
